---- MODULE Spec2Model ----
(***************************************************************************)
(* Model of the widget layout engine of src/plugins/utils/plot.py:         *)
(* the Painter and its region stack, the Widget size/draw protocol, the    *)
(* containers Frame / HSplit / VSplit / Grid, the leaves Spacer and        *)
(* ImageBox, and Canvas.get_img.                                           *)
(*                                                                         *)
(* Python values are represented as follows:                               *)
(*   - a 2-tuple (a, b) is the sequence <<a, b>>;                          *)
(*   - None in an integer field is the sentinel None;                      *)
(*   - a list is a sequence; widgets are named by their index in the       *)
(*     widget table W (object identity);                                   *)
(*   - a method that mutates objects and may raise is an operator from the *)
(*     state it reads to a record holding the state it leaves, its return  *)
(*     value and the exception raised ("" when it returns normally).       *)
(***************************************************************************)
EXTENDS Integers, Sequences, FiniteSets, TLC

VARIABLES
    painter,    \* the Painter object: offset, size, w, h, region_stack, img_size; err is
                \* the exception raised by the last call on it ("" if none)
    hist,       \* history: the active region saved before each push still on the stack
    lastOp,     \* history: the last Painter operation called, with its arguments
    W,          \* the widget table: W[i] is the widget object with identity i
    wstack,     \* the stack of open `with` containers (Widget._thread_local's wstack)
    cfgErr,     \* the exception raised by the last constructor / setter call ("" if none)
    nsets,      \* number of setter calls made so far
    result,     \* outcome of Canvas.get_img: kind ("none" before the call, "image",
                \* "error"), size of the image returned, size of the image allocated,
                \* exception raised
    log,        \* events of the last get_img call, in program order
    ctxvar,     \* Widget._thread_local in each execution context: the `local` object
                \* it holds (0 for None)
    locals,     \* the `local` objects created by __enter__: locals[l] is the wstack of l
    calls       \* history: the constructor, __enter__ and __exit__ calls made in the
                \* execution contexts, in the order they ran

painterVars == <<painter, hist, lastOp>>
treeVars == <<W, wstack, cfgErr, nsets, result, log>>
ctxVars == <<ctxvar, locals, calls>>
vars == <<painter, hist, lastOp, W, wstack, cfgErr, nsets, result, log, ctxvar, locals, calls>>

\* None, for an integer-valued attribute (self.w = None)
None == -1000000

\* "no size argument" of move_region (size: Size = None)
NoSize == <<>>

(***************************************************************************)
(* Bounds of the model.                                                    *)
(***************************************************************************)
\* largest region-stack depth explored by the Painter specification
MaxStack == 3
\* largest depth argument given to restore_region
MaxRestore == 3

\* largest number of constructor and setter calls made to build one tree
\* (the call of Canvas() included)
MaxBuildCalls == 4

\* largest number of widgets composed outside `with` blocks, and of add_item
\* and set_items calls made on them
MaxComposed == 3
MaxLinkCalls == 2
MaxLeaves == 3
MaxLayoutSets == 2
\* longest text of a TextBox, in characters, and set_w calls made on it
MaxTextLen == 5
MaxTextSets == 1
\* tasks created beside the main execution context, and builder calls made in
\* all contexts together
MaxTasks == 2
MaxCtxCalls == 5
\* _get_self_size queries and setter calls made on a tree before it is rendered
MaxQueries == 2
MaxRequerySets == 2
\* setter calls and widgets of a tree painted with backgrounds and hooks
MaxPaintSets == 5
MaxPainted == 2
\* widgets under the container of a nested layout
MaxNested == 3

\* positions / deltas and sizes handed to the Painter operations
PosSet == {<<0, 0>>, <<1, 2>>, <<3, 1>>}
SizeSet == {<<4, 3>>, <<2, 5>>}
\* sizes of the image a Painter is constructed on
ImgSizes == {<<8, 6>>, <<5, 5>>}

(***************************************************************************)
(* Painter                                                                 *)
(***************************************************************************)
\* Painter.__init__
NewPainter(img_size) ==
    [img_size |-> img_size, offset |-> <<0, 0>>, size |-> img_size,
     w |-> img_size[1], h |-> img_size[2], region_stack |-> <<>>, err |-> ""]

\* Painter.set_region, with the active offset translated by the previous one
set_region_translated(p, pos, size) ==
    [p EXCEPT !.region_stack = Append(@, <<p.offset, p.size>>),
              !.offset = <<p.offset[1] + pos[1], p.offset[2] + pos[2]>>,
              !.size = size, !.w = size[1], !.h = size[2]]

\* Painter.set_region
set_region(p, pos, size) ==
    [p EXCEPT !.region_stack = Append(@, <<p.offset, p.size>>),
              !.offset = pos,
              !.size = size, !.w = size[1], !.h = size[2]]

\* Painter.shrink_region
shrink_region(p, dlt) ==
    LET pos == <<p.offset[1] + dlt[1], p.offset[2] + dlt[2]>>
        size == <<p.size[1] - dlt[1] * 2, p.size[2] - dlt[2] * 2>>
    IN set_region(p, pos, size)

\* Painter.expand_region
expand_region(p, dlt) ==
    LET pos == <<p.offset[1] - dlt[1], p.offset[2] - dlt[2]>>
        size == <<p.size[1] + dlt[1] * 2, p.size[2] + dlt[2] * 2>>
    IN set_region(p, pos, size)

\* Painter.move_region
move_region(p, dlt, size) ==
    LET offset == <<p.offset[1] + dlt[1], p.offset[2] + dlt[2]>>
        sz == IF size = NoSize THEN p.size ELSE size
    IN set_region(p, offset, sz)

\* one round of Painter.restore_region: the body before the recursive call
restore_one(p) ==
    IF p.region_stack = <<>>
    THEN [p EXCEPT !.offset = <<0, 0>>, !.size = p.img_size,
                   !.w = p.img_size[1], !.h = p.img_size[2]]
    ELSE LET top == p.region_stack[Len(p.region_stack)]
         IN [p EXCEPT !.offset = top[1], !.size = top[2],
                      !.w = top[2][1], !.h = top[2][2],
                      !.region_stack = SubSeq(@, 1, Len(@) - 1)]

\* restore_region that forgets one of the requested pops
RECURSIVE restore_region_short(_, _)
restore_region_short(p, depth) ==
    LET q == restore_one(p)
    IN IF depth > 2 THEN restore_region_short(q, depth - 1) ELSE q

\* restore_region without the empty-stack guard: list.pop() raises on an empty list
RECURSIVE restore_region_unguarded(_, _)
restore_region_unguarded(p, depth) ==
    IF p.region_stack = <<>>
    THEN [p EXCEPT !.err = "IndexError"]
    ELSE LET q == restore_one(p)
         IN IF depth > 1 THEN restore_region_unguarded(q, depth - 1) ELSE q

\* Painter.restore_region
RECURSIVE restore_region(_, _)
restore_region(p, depth) ==
    LET q == restore_one(p)
    IN IF depth > 1 THEN restore_region(q, depth - 1) ELSE q

\* the active region of a painter: (offset, size, w, h)
Active(p) == [offset |-> p.offset, size |-> p.size, w |-> p.w, h |-> p.h]

(***************************************************************************)
(* Widgets: attributes and configuration                                   *)
(***************************************************************************)
DEFAULT_PADDING == 0
DEFAULT_MARGIN == 0
DEFAULT_SEP == 8
\* the bound ImageBox substitutes for a missing width / height
ImageUnbounded == 1000000
\* Canvas.get_img accepts w * h < CanvasSide * CanvasSide
CanvasSide == 4096
\* TextStyle.size: the height of one line of text
TextStyleSize == 16
\* the padding TextBox.__init__ sets
TextBoxPadding == 2

\* the keys of ALIGN_MAP
AlignTokens == {"c", "l", "r", "t", "b", "tl", "tr", "bl", "br", "lt", "lb", "rt", "rb"}

\* ALIGN_MAP[a]: (horizontal, vertical)
ALIGN_MAP(a) ==
    CASE a = "c" -> <<"c", "c">>
      [] a = "l" -> <<"l", "c">>
      [] a = "r" -> <<"r", "c">>
      [] a = "t" -> <<"c", "t">>
      [] a = "b" -> <<"c", "b">>
      [] a \in {"tl", "lt"} -> <<"l", "t">>
      [] a \in {"tr", "rt"} -> <<"r", "t">>
      [] a \in {"bl", "lb"} -> <<"l", "b">>
      [] a \in {"br", "rb"} -> <<"r", "b">>

\* Widget.__init__: the attributes of a new widget (with the attributes the
\* subclasses add, at the values their constructors give by default)
Widget_init(kind) ==
    [kind |-> kind, parent |-> 0,
     content_halign |-> "l", content_valign |-> "t",
     vmargin |-> DEFAULT_MARGIN, hmargin |-> DEFAULT_MARGIN,
     vpadding |-> DEFAULT_PADDING, hpadding |-> DEFAULT_PADDING,
     w |-> None, h |-> None,
     offset |-> <<0, 0>>, offset_xanchor |-> "l", offset_yanchor |-> "t",
     calc_w |-> None, calc_h |-> None,
     items |-> <<>>, ratios |-> <<>>, sep |-> DEFAULT_SEP,
     item_size_mode |-> "fixed", item_halign |-> "c", item_valign |-> "c",
     row_count |-> None, col_count |-> None,
     hsep |-> DEFAULT_SEP, vsep |-> DEFAULT_SEP, vertical |-> FALSE,
     image |-> <<0, 0>>, image_size_mode |-> "original",
     overflow |-> "shrink", line_count |-> 1, line_sep |-> 2,
     text |-> <<>>, wrap |-> TRUE,
     bg |-> FALSE, omit_parent_bg |-> FALSE, draw_funcs |-> <<>>,
     item_bg |-> FALSE]

Containers == {"Canvas", "Frame", "HSplit", "VSplit", "Grid"}

\* truth value of an optional integer (None and 0 are false)
Truthy(x) == x # None /\ x # 0

\* int(num / den) for den > 0: Python's int() truncates toward zero
Trunc(num, den) ==
    IF num >= 0 THEN num \div den ELSE -((-num) \div den)

Max2(a, b) == IF a >= b THEN a ELSE b

(***************************************************************************)
(* Float arithmetic.  Python divides two ints into an IEEE double (53      *)
(* significant bits, round to nearest), multiplies doubles into a double   *)
(* rounded the same way, and int() truncates toward zero.  For small       *)
(* operands the result of int(x * (num / den)) differs from the exact      *)
(* int(x * num / den) only when x * num / den is an integer k, the         *)
(* quotient was rounded down and the product rounds to the double below k. *)
(***************************************************************************)
RECURSIVE FloorLog2(_, _)
\* floor(log2(n / d)) for n, d > 0: the exponent of the double n / d
FloorLog2(n, d) ==
    IF n >= 2 * d THEN FloorLog2(n, 2 * d) + 1
    ELSE IF n < d THEN FloorLog2(2 * n, d) - 1
    ELSE 0

RECURSIVE Pow2(_)
Pow2(e) == IF e = 0 THEN 1 ELSE 2 * Pow2(e - 1)

RECURSIVE CeilLog2(_, _)
\* the least p' >= p with 2^p' >= k
CeilLog2(k, p) == IF Pow2(p) >= k THEN p ELSE CeilLog2(k, p + 1)

RECURSIVE Pow2Mod(_, _)
\* 2^e mod d
Pow2Mod(e, d) == IF e = 0 THEN 1 % d ELSE (2 * Pow2Mod(e - 1, d)) % d

\* the remainder left by the 53-bit quotient of n / d: with t = FloorLog2(n, d)
\* the quotient is floor(n * 2^(52 - t) / d) * 2^(t - 52)
QuotientRem(n, d) == ((n % d) * Pow2Mod(52 - FloorLog2(n, d), d)) % d

\* int(x * (n / d)) for x, n, d > 0 with d dividing x * n, k = x * n / d:
\* the quotient is rounded down when 0 < 2 * rem < d, and the product then
\* lies x * rem / (d * 2^(52 - t)) below k, which rounds to the double below
\* k when it exceeds half the spacing 2^(p - 53) of the doubles below k
FloatIntExact(x, n, d, k, rem) ==
    IF 0 < 2 * rem /\ 2 * rem < d
       /\ x * rem * 4 > d * Pow2(CeilLog2(k, 0) - FloorLog2(n, d))
    THEN k - 1 ELSE k

\* int(x * (n / d)) for x, n, d > 0
FloatIntPos(x, n, d) ==
    IF (x * n) % d # 0 THEN (x * n) \div d
    ELSE FloatIntExact(x, n, d, (x * n) \div d, QuotientRem(n, d))

Abs(x) == IF x < 0 THEN -x ELSE x

\* int(x * (num / den)) for den > 0, as Python computes it in doubles
FloatInt(x, num, den) ==
    IF x = 0 \/ num = 0 THEN 0
    ELSE IF (x < 0) = (num < 0) THEN FloatIntPos(Abs(x), Abs(num), den)
    ELSE -FloatIntPos(Abs(x), Abs(num), den)


RECURSIVE SumSeq(_)
SumSeq(s) == IF s = <<>> THEN 0 ELSE s[1] + SumSeq(Tail(s))

RECURSIVE MaxSeq(_)
\* max() of a non-empty list
MaxSeq(s) == IF Len(s) = 1 THEN s[1] ELSE Max2(s[1], MaxSeq(Tail(s)))

Min2(a, b) == IF a <= b THEN a ELSE b

\* a returned value / a raised exception, with the widget table left behind
Ret(T, val) == [W |-> T, val |-> val, err |-> ""]
Raise(T, err) == [W |-> T, val |-> <<0, 0>>, err |-> err]

SizingError == "ValueError: Content size is too large"

(***************************************************************************)
(* Size measurement.  A method maps the widget table to the value it       *)
(* returns (or the exception it raises) and the widget table it leaves     *)
(* behind.  A method that calls another one is split at the call: the      *)
(* operator named X_then_... is the rest of method X, taking the result    *)
(* of the call as its last argument.                                       *)
(***************************************************************************)
RECURSIVE get_self_size(_, _)
RECURSIVE get_content_size(_, _)
RECURSIVE self_sizes(_, _, _)
RECURSIVE self_sizes_then_rest(_, _, _)

\* [item._get_self_size() for item in its]: the items measured in list order;
\* acc holds the sizes of the items already measured
self_sizes(T, its, acc) ==
    IF its = <<>> THEN Ret(T, acc)
    ELSE self_sizes_then_rest(its, acc, get_self_size(T, its[1]))

\* the rest of the list, once its first item is measured as m
self_sizes_then_rest(its, acc, m) ==
    IF m.err # "" THEN Raise(m.W, m.err)
    ELSE self_sizes(m.W, Tail(its), Append(acc, m.val))

Widths(sizes) == [k \in 1..Len(sizes) |-> sizes[k][1]]
Heights(sizes) == [k \in 1..Len(sizes) |-> sizes[k][2]]

\* the sum, instead of the maximum, of the measured item sizes m
SumSize(m) == <<SumSeq(Widths(m.val)), SumSeq(Heights(m.val))>>

\* max(w, iw), max(h, ih) over the measured item sizes m, from (0, 0)
MaxSize(m) == <<MaxSeq(<<0>> \o Widths(m.val)), MaxSeq(<<0>> \o Heights(m.val))>>

\* Frame._get_content_size, once the items are measured as m
Frame_get_content_size_then_max(m) ==
    IF m.err # "" THEN Raise(m.W, m.err) ELSE Ret(m.W, MaxSize(m))

\* Frame._get_content_size
Frame_get_content_size(T, i) ==
    Frame_get_content_size_then_max(self_sizes(T, T[i].items, <<>>))

\* the unit of a fixed-mode split: max(extent / r) over zip(ratios, items) with
\* r > 0, as a fraction <<num, den>>; k is the next index of the zip
RECURSIVE fixed_unit(_, _, _, _)
fixed_unit(ratios, extents, k, unit) ==
    IF k > Min2(Len(ratios), Len(extents)) THEN unit
    ELSE LET r == ratios[k]
             e == extents[k]
             bigger == r > 0 /\ e * unit[2] > unit[1] * r
         IN fixed_unit(ratios, extents, k + 1, IF bigger THEN <<e, r>> ELSE unit)

\* a fraction with the sign of a negative denominator moved to the numerator
Fraction(num, den) == IF den < 0 THEN <<-num, -den>> ELSE <<num, den>>

\* HSplit._get_item_sizes / VSplit._get_item_sizes rounding every slot up
\* by a pixel
Split_get_item_sizes_then_ret_up(i, axis, ratios, u, m3) ==
    LET n == Min2(Len(ratios), Len(m3.W[i].items))
        other == MaxSeq([k \in 1..Len(m3.val) |-> m3.val[k][3 - axis]])
    IN IF m3.err # "" THEN Raise(m3.W, m3.err)
       ELSE Ret(m3.W, [k \in 1..n |->
                IF axis = 1 THEN <<FloatInt(ratios[k], u[1], u[2]) + 1, other>>
                ELSE <<other, FloatInt(ratios[k], u[1], u[2]) + 1>>])

\* HSplit._get_item_sizes / VSplit._get_item_sizes, last part: the loop
\*   for r, item in zip(ratios, self.items): ret.append((int(unit * r), h))
\* with unit the fraction u and h = max([item._get_self_size()[cross] ...]),
\* the items being measured as m3
Split_get_item_sizes_then_ret(i, axis, ratios, u, m3) ==
    LET n == Min2(Len(ratios), Len(m3.W[i].items))
        other == MaxSeq([k \in 1..Len(m3.val) |-> m3.val[k][3 - axis]])
    IN IF m3.err # "" THEN Raise(m3.W, m3.err)
       ELSE Ret(m3.W, [k \in 1..n |->
                IF axis = 1 THEN <<FloatInt(ratios[k], u[1], u[2]), other>>
                ELSE <<other, FloatInt(ratios[k], u[1], u[2])>>])

\* HSplit._get_item_sizes / VSplit._get_item_sizes, middle part: the unit is
\* known (expand mode: m2 carries no sizes) or follows from the items of
\* zip(ratios, self.items) measured as m2 (fixed mode); then the cross extent
Split_get_item_sizes_then_cross(i, axis, ratios, m2) ==
    LET me == m2.W[i]
        explicit == IF axis = 1 THEN me.w ELSE me.h
        pad == IF axis = 1 THEN me.hpadding ELSE me.vpadding
        unit == IF me.item_size_mode = "expand"
                THEN Fraction(explicit - me.sep * (Len(ratios) - 1) - pad * 2,
                              SumSeq(ratios))
                ELSE fixed_unit(ratios, [k \in 1..Len(m2.val) |-> m2.val[k][axis]],
                                1, <<0, 1>>)
    IN IF m2.err # "" THEN Raise(m2.W, m2.err)
       ELSE Split_get_item_sizes_then_ret(i, axis, ratios, unit,
                                          self_sizes(m2.W, me.items, <<>>))

\* HSplit._get_item_sizes / VSplit._get_item_sizes, from the ratios on: the
\* assertion and the division of the expand mode, or the items of
\* zip(ratios, self.items) measured by the loop of the fixed mode
Split_get_item_sizes_then_unit(T, i, axis, ratios) ==
    LET me == T[i]
        explicit == IF axis = 1 THEN me.w ELSE me.h
        n == Min2(Len(ratios), Len(me.items))
    IN Split_get_item_sizes_then_cross(i, axis, ratios,
          IF me.item_size_mode = "expand"
          THEN IF explicit = None
               THEN Raise(T, IF axis = 1 THEN "AssertionError: Expand mode requires width"
                             ELSE "AssertionError: Expand mode requires height")
               ELSE IF SumSeq(ratios) = 0 THEN Raise(T, "ZeroDivisionError")
               ELSE Ret(T, <<>>)
          ELSE self_sizes(T, SubSeq(me.items, 1, n), <<>>))

\* HSplit._get_item_sizes / VSplit._get_item_sizes, once
\*   ratios = self.ratios if self.ratios else [item._get_self_size()[axis] ...]
\* is evaluated: m1 holds the measured items (none when self.ratios is used)
Split_get_item_sizes_then_ratios(i, axis, m1) ==
    IF m1.err # "" THEN Raise(m1.W, m1.err)
    ELSE Split_get_item_sizes_then_unit(m1.W, i, axis,
            IF m1.W[i].ratios # <<>> THEN m1.W[i].ratios
            ELSE [k \in 1..Len(m1.val) |-> m1.val[k][axis]])

\* HSplit._get_item_sizes / VSplit._get_item_sizes: axis 1 is the HSplit's
\* (main axis = width), axis 2 the VSplit's (main axis = height)
Split_get_item_sizes(T, i, axis) ==
    Split_get_item_sizes_then_ratios(i, axis,
        IF T[i].ratios # <<>> THEN Ret(T, <<>>) ELSE self_sizes(T, T[i].items, <<>>))

\* HSplit._get_content_size / VSplit._get_content_size that leaves the
\* separators out of the main extent
Split_get_content_size_then_sum_no_sep(i, axis, m) ==
    LET sizes == m.val
        main == SumSeq([k \in 1..Len(sizes) |-> sizes[k][axis]])
        other == MaxSeq([k \in 1..Len(sizes) |-> sizes[k][3 - axis]])
    IN IF m.err # "" THEN Raise(m.W, m.err)
       ELSE Ret(m.W, IF axis = 1 THEN <<main, other>> ELSE <<other, main>>)

\* HSplit._get_content_size / VSplit._get_content_size, once the item sizes
\* are computed as m
Split_get_content_size_then_sum(i, axis, m) ==
    LET sizes == m.val
        main == SumSeq([k \in 1..Len(sizes) |-> sizes[k][axis]])
                  + m.W[i].sep * (Len(sizes) - 1)
        other == MaxSeq([k \in 1..Len(sizes) |-> sizes[k][3 - axis]])
    IN IF m.err # "" THEN Raise(m.W, m.err)
       ELSE Ret(m.W, IF axis = 1 THEN <<main, other>> ELSE <<other, main>>)

\* HSplit._get_content_size / VSplit._get_content_size
Split_get_content_size(T, i, axis) ==
    IF T[i].items = <<>> THEN Ret(T, <<0, 0>>)
    ELSE Split_get_content_size_then_sum(i, axis, Split_get_item_sizes(T, i, axis))

RowColError == "AssertionError: Either row_count or col_count should be None"

\* Grid._get_grid_rc_and_size in fixed mode, once the items are measured as m
Grid_get_grid_rc_and_size_then_max(rc, m) ==
    IF m.err # "" THEN Raise(m.W, m.err) ELSE Ret(m.W, <<rc, MaxSize(m)>>)

\* Grid._get_grid_rc_and_size: val is <<<<r, c>>, <<gw, gh>>>>
Grid_get_grid_rc_and_size(T, i) ==
    LET me == T[i]
        r0 == me.row_count
        c0 == me.col_count
        n == Len(me.items)
        r == IF ~Truthy(r0) THEN (n + c0 - 1) \div c0 ELSE r0
        c == IF ~Truthy(c0) THEN (n + r - 1) \div r ELSE c0
    IN IF ~((Truthy(r0) /\ ~Truthy(c0)) \/ (Truthy(c0) /\ ~Truthy(r0)))
       THEN Raise(T, RowColError)
       ELSE IF me.item_size_mode = "expand"
       THEN IF me.w = None \/ me.h = None
            THEN Raise(T, "AssertionError: Expand mode requires width and height")
            ELSE IF c = 0 \/ r = 0 THEN Raise(T, "ZeroDivisionError")
            ELSE Ret(T, <<<<r, c>>,
                          <<Trunc(me.w - me.hsep * (c - 1) - me.hpadding * 2, c),
                            Trunc(me.h - me.vsep * (r - 1) - me.vpadding * 2, r)>>>>)
       ELSE Grid_get_grid_rc_and_size_then_max(<<r, c>>, self_sizes(T, me.items, <<>>))

\* Grid._get_content_size, once the grid is computed as m
Grid_get_content_size_then_total(i, m) ==
    LET r == m.val[1][1]
        c == m.val[1][2]
        gw == m.val[2][1]
        gh == m.val[2][2]
    IN IF m.err # "" THEN Raise(m.W, m.err)
       ELSE Ret(m.W, <<c * gw + m.W[i].hsep * (c - 1), r * gh + m.W[i].vsep * (r - 1)>>)

\* Grid._get_content_size
Grid_get_content_size(T, i) ==
    Grid_get_content_size_then_total(i, Grid_get_grid_rc_and_size(T, i))

\* ImageBox._get_content_size without the assertions on the fit / fill
\* bounds: an image with neither bound keeps its original size
ImageBox_get_content_size_unchecked(T, i) ==
    LET me == T[i]
        w == me.image[1]
        h == me.image[2]
        tw == IF Truthy(me.w) THEN me.w - me.hpadding * 2 ELSE ImageUnbounded
        th == IF Truthy(me.h) THEN me.h - me.vpadding * 2 ELSE ImageUnbounded
        wLess == tw * h <= th * w
        fit == IF wLess THEN <<tw, w>> ELSE <<th, h>>
        fill == IF wLess THEN <<th, h>> ELSE <<tw, w>>
        scaled(sc) == <<FloatInt(w, sc[1], sc[2]), FloatInt(h, sc[1], sc[2])>>
    IN IF me.image_size_mode = "original" \/ (me.w = None /\ me.h = None)
       THEN Ret(T, <<w, h>>)
       ELSE IF me.image_size_mode = "fit" THEN Ret(T, scaled(fit))
       ELSE IF Truthy(me.w) /\ Truthy(me.h)
       THEN Ret(T, <<me.w - me.hpadding * 2, me.h - me.vpadding * 2>>)
       ELSE Ret(T, scaled(fill))

\* ImageBox._get_content_size; the scale tw / w or th / h is kept as a fraction
ImageBox_get_content_size(T, i) ==
    LET me == T[i]
        w == me.image[1]
        h == me.image[2]
        tw == IF Truthy(me.w) THEN me.w - me.hpadding * 2 ELSE ImageUnbounded
        th == IF Truthy(me.h) THEN me.h - me.vpadding * 2 ELSE ImageUnbounded
        \* tw / w <= th / h
        wLess == tw * h <= th * w
        fit == IF wLess THEN <<tw, w>> ELSE <<th, h>>
        fill == IF wLess THEN <<th, h>> ELSE <<tw, w>>
        scaled(sc) == <<FloatInt(w, sc[1], sc[2]), FloatInt(h, sc[1], sc[2])>>
    IN IF me.image_size_mode = "original" THEN Ret(T, <<w, h>>)
       ELSE IF me.image_size_mode = "fit"
       THEN IF me.w = None /\ me.h = None
            THEN Raise(T, "AssertionError: Fit mode requires width or height")
            ELSE Ret(T, scaled(fit))
       ELSE IF me.w = None /\ me.h = None
            THEN Raise(T, "AssertionError: Fill mode requires width or height")
            ELSE IF Truthy(me.w) /\ Truthy(me.h)
            THEN Ret(T, <<me.w - me.hpadding * 2, me.h - me.vpadding * 2>>)
            ELSE Ret(T, scaled(fill))

\* Spacer._get_content_size
Spacer_get_content_size(T, i) ==
    IF T[i].w = None \/ T[i].h = None THEN Raise(T, "TypeError")
    ELSE Ret(T, <<T[i].w - 2 * T[i].hpadding, T[i].h - 2 * T[i].vpadding>>)

\* TextBox._get_content_size for the empty text, which has no width; one
\* line per line_count (use_real_line_count = False)
TextBox_get_content_size(T, i) ==
    LET me == T[i]
        h == me.line_count * (TextStyleSize + me.line_sep) - me.line_sep
    IN Ret(T, <<IF Truthy(me.w) THEN me.w - me.hpadding * 2 ELSE 0,
                IF Truthy(me.h) THEN me.h - me.vpadding * 2 ELSE h>>)

\* the main axis of a split: 1 (width) for HSplit, 2 (height) for VSplit
Axis(kind) == IF kind = "HSplit" THEN 1 ELSE 2

\* _get_content_size, dispatched on the class of the widget
get_content_size(T, i) ==
    CASE T[i].kind \in {"Frame", "Canvas"} -> Frame_get_content_size(T, i)
      [] T[i].kind \in {"HSplit", "VSplit"} ->
            Split_get_content_size(T, i, Axis(T[i].kind))
      [] T[i].kind = "Grid" -> Grid_get_content_size(T, i)
      [] T[i].kind = "ImageBox" -> ImageBox_get_content_size(T, i)
      [] T[i].kind = "Spacer" -> Spacer_get_content_size(T, i)
      [] T[i].kind = "TextBox" -> TextBox_get_content_size(T, i)

\* content limits that take the padding off an explicit extent once, not twice
content_limit_once(me, content) ==
    <<IF me.w # None THEN me.w - me.hpadding ELSE content[1],
      IF me.h # None THEN me.h - me.vpadding ELSE content[2]>>

\* the content limits of Widget._get_self_size: <<content_w_limit, content_h_limit>>
content_limit(me, content) ==
    <<IF me.w # None THEN me.w - me.hpadding * 2 ELSE content[1],
      IF me.h # None THEN me.h - me.vpadding * 2 ELSE content[2]>>

\* the rest of Widget._get_self_size, clamping an oversized content to the
\* explicit bound instead of raising
get_self_size_then_clamp(i, c) ==
    LET me == c.W[i]
        lim == content_limit(me, c.val)
        cw == lim[1] + me.hmargin * 2 + me.hpadding * 2
        ch == lim[2] + me.vmargin * 2 + me.vpadding * 2
    IN IF c.err # "" THEN Raise(c.W, c.err)
       ELSE Ret([c.W EXCEPT ![i].calc_w = cw, ![i].calc_h = ch], <<cw, ch>>)

\* Widget._get_self_size, once the content size is computed as c: the limits,
\* the sizing error, the cache
get_self_size_then_limit(i, c) ==
    LET me == c.W[i]
        lim == content_limit(me, c.val)
        cw == lim[1] + me.hmargin * 2 + me.hpadding * 2
        ch == lim[2] + me.vmargin * 2 + me.vpadding * 2
    IN IF c.err # "" THEN Raise(c.W, c.err)
       ELSE IF c.val[1] > lim[1] \/ c.val[2] > lim[2]
       THEN Raise(c.W, SizingError)
       ELSE Ret([c.W EXCEPT ![i].calc_w = cw, ![i].calc_h = ch], <<cw, ch>>)

\* Widget._get_self_size computing the size at every query
get_self_size_uncached(T, i) ==
    get_self_size_then_limit(i, get_content_size(T, i))

\* Widget._get_self_size
get_self_size(T, i) ==
    IF ~(Truthy(T[i].calc_w) /\ Truthy(T[i].calc_h))
    THEN get_self_size_then_limit(i, get_content_size(T, i))
    ELSE Ret(T, <<T[i].calc_w, T[i].calc_h>>)

\* the position selected by an alignment letter in a span of `outer` for a
\* part of `inner`: the if / elif chains on halign and valign
AlignPos(a, outer, inner) ==
    CASE a \in {"l", "t"} -> 0
      [] a \in {"r", "b"} -> outer - inner
      [] a = "c" -> (outer - inner) \div 2

\* Widget._get_content_pos that puts the content at the origin of the box
\* whatever the content alignment
get_content_pos_then_align_origin(i, w, h, c) ==
    IF c.err # "" THEN Raise(c.W, c.err) ELSE Ret(c.W, <<0, 0>>)

\* Widget._get_content_pos, once the content size is computed as c; (w, h)
\* is the self size less padding and margin
get_content_pos_then_align(i, w, h, c) ==
    IF c.err # "" THEN Raise(c.W, c.err)
    ELSE Ret(c.W, <<AlignPos(c.W[i].content_halign, w, c.val[1]),
                    AlignPos(c.W[i].content_valign, h, c.val[2])>>)

\* Widget._get_content_pos, once the self size is computed as s
get_content_pos_then_content(i, s) ==
    LET me == s.W[i]
    IN IF s.err # "" THEN Raise(s.W, s.err)
       ELSE get_content_pos_then_align(i,
                s.val[1] - (me.hpadding * 2 + me.hmargin * 2),
                s.val[2] - (me.vpadding * 2 + me.vmargin * 2),
                get_content_size(s.W, i))

\* Widget._get_content_pos
get_content_pos(T, i) == get_content_pos_then_content(i, get_self_size(T, i))

(***************************************************************************)
(* Drawing.  A drawing method maps the widget table, the painter and the   *)
(* event log to those it leaves behind, with the exception raised.  It is  *)
(* split at its calls as the measuring methods are.                        *)
(***************************************************************************)
Drawn(T, p, lg) == [W |-> T, p |-> p, log |-> lg, err |-> ""]
DrawRaise(T, p, lg, err) == [W |-> T, p |-> p, log |-> lg, err |-> err]

\* a log event: what happened, to which widget, with the painter's active
\* region and stack depth at that moment
Event(ev, i, p) ==
    [ev |-> ev, id |-> i, offset |-> p.offset, size |-> p.size,
     depth |-> Len(p.region_stack)]

DrawSizeError == "AssertionError: p.size == self._get_self_size()"

RECURSIVE draw(_, _, _, _)
RECURSIVE draw_self_hooks(_, _, _, _, _)

\* the loop of Widget._draw_self over self.draw_funcs from hook k on:
\* draw_func(self, p); a hook is known by its name and paints in p
draw_self_hooks(me, i, k, p, lg) ==
    IF k > Len(me.draw_funcs) THEN lg
    ELSE draw_self_hooks(me, i, k + 1, p, Append(lg, Event(me.draw_funcs[k], i, p)))

\* Widget._draw_self running the draw hooks last to first
draw_self_hooks_reversed(me, i, p, lg) ==
    draw_self_hooks([me EXCEPT !.draw_funcs =
                        [k \in 1..Len(me.draw_funcs) |->
                            me.draw_funcs[Len(me.draw_funcs) + 1 - k]]],
                    i, 1, p,
                    IF me.bg THEN Append(lg, Event("bg", i, p)) ELSE lg)

\* Widget._draw_self: `if self.bg: self.bg.draw(p)`, then the draw hooks
draw_self(me, i, p, lg) ==
    draw_self_hooks(me, i, 1, p,
                    IF me.bg THEN Append(lg, Event("bg", i, p)) ELSE lg)

\* HSplit / VSplit / Grid._draw_content, in the slot p1 of an item:
\* `if self.item_bg and not item.omit_parent_bg: self.item_bg.draw(p)`
draw_item_bg(T, i, item, p1, lg) ==
    IF T[i].item_bg /\ ~T[item].omit_parent_bg
    THEN Append(lg, Event("item_bg", item, p1))
    ELSE lg
RECURSIVE Frame_draw_items(_, _, _, _, _, _)
RECURSIVE Split_draw_items(_, _, _, _, _, _, _, _)
RECURSIVE Grid_draw_items(_, _, _, _, _, _, _)

\* the loop of Frame._draw_content, once item k is drawn as d:
\* p.restore_region(), then the next item
Frame_draw_items_then_next(i, k, content, d) ==
    IF d.err # "" THEN d
    ELSE Frame_draw_items(d.W, i, k + 1, content, restore_region(d.p, 1), d.log)

\* the loop of Frame._draw_content that hands item k the Frame's own content
\* region instead of a region of the item's size
Frame_draw_items_then_draw_own_size(i, k, content, p, lg, s) ==
    IF s.err # "" THEN DrawRaise(s.W, p, lg, s.err)
    ELSE Frame_draw_items_then_next(i, k, content,
            draw(s.W, s.W[i].items[k], move_region(p, <<0, 0>>, content), lg))

\* the loop of Frame._draw_content aligning item k by the item's own content
\* alignment instead of the Frame's
Frame_draw_items_then_draw_item_align(i, k, content, p, lg, s) ==
    LET item == s.W[i].items[k]
        x == AlignPos(s.W[item].content_halign, content[1], s.val[1])
        y == AlignPos(s.W[item].content_valign, content[2], s.val[2])
    IN IF s.err # "" THEN DrawRaise(s.W, p, lg, s.err)
       ELSE Frame_draw_items_then_next(i, k, content,
               draw(s.W, item, move_region(p, <<x, y>>, s.val), lg))

\* the loop of Frame._draw_content, once item k is measured as s: the item is
\* aligned in the content (cw, ch) and drawn in a region of its own size
Frame_draw_items_then_draw(i, k, content, p, lg, s) ==
    LET x == AlignPos(s.W[i].content_halign, content[1], s.val[1])
        y == AlignPos(s.W[i].content_valign, content[2], s.val[2])
    IN IF s.err # "" THEN DrawRaise(s.W, p, lg, s.err)
       ELSE Frame_draw_items_then_next(i, k, content,
               draw(s.W, s.W[i].items[k], move_region(p, <<x, y>>, s.val), lg))

\* the loop of Frame._draw_content from item k on; content is (cw, ch)
Frame_draw_items(T, i, k, content, p, lg) ==
    IF k > Len(T[i].items) THEN Drawn(T, p, lg)
    ELSE Frame_draw_items_then_draw(i, k, content, p, lg,
                                    get_self_size(T, T[i].items[k]))

\* Frame._draw_content, once the content size is computed as c
Frame_draw_content_then_items(i, p, lg, c) ==
    IF c.err # "" THEN DrawRaise(c.W, p, lg, c.err)
    ELSE Frame_draw_items(c.W, i, 1, c.val, p, lg)

\* Frame._draw_content
Frame_draw_content(T, i, p, lg) ==
    Frame_draw_content_then_items(i, p, lg, get_content_size(T, i))

\* the loop of HSplit._draw_content / VSplit._draw_content, once item k is
\* drawn as d: p.restore_region(2), cur advances, then the next pair
Split_draw_items_then_next(i, axis, k, sizes, cur, d) ==
    IF d.err # "" THEN d
    ELSE Split_draw_items(d.W, i, axis, k + 1, sizes,
                          cur + sizes[k][axis] + d.W[i].sep,
                          restore_region(d.p, 2), d.log)

\* the loop of HSplit._draw_content / VSplit._draw_content, once item k is
\* measured as s: p1 is the slot of the item, where item_bg is drawn; the
\* item is aligned in it and drawn in a region of its own size
Split_draw_items_then_draw(i, axis, k, sizes, cur, p, lg, s) ==
    LET item == s.W[i].items[k]
        w == sizes[k][1]
        h == sizes[k][2]
        p1 == move_region(p, IF axis = 1 THEN <<cur, 0>> ELSE <<0, cur>>, <<w, h>>)
        x == AlignPos(s.W[i].item_halign, w, s.val[1])
        y == AlignPos(s.W[i].item_valign, h, s.val[2])
    IN IF s.err # "" THEN DrawRaise(s.W, p, lg, s.err)
       ELSE Split_draw_items_then_next(i, axis, k, sizes, cur,
               draw(s.W, item, move_region(p1, <<x, y>>, s.val),
                    draw_item_bg(s.W, i, item, p1,
                                 Append(lg, Event("slot", item, p1)))))

\* the loop of HSplit._draw_content / VSplit._draw_content over
\* zip(self.items, sizes) from pair k on; cur is cur_x / cur_y
Split_draw_items(T, i, axis, k, sizes, cur, p, lg) ==
    IF k > Min2(Len(T[i].items), Len(sizes)) THEN Drawn(T, p, lg)
    ELSE Split_draw_items_then_draw(i, axis, k, sizes, cur, p, lg,
                                    get_self_size(T, T[i].items[k]))

\* HSplit._draw_content / VSplit._draw_content, once the item sizes are
\* computed as m
Split_draw_content_then_items(i, axis, p, lg, m) ==
    IF m.err # "" THEN DrawRaise(m.W, p, lg, m.err)
    ELSE Split_draw_items(m.W, i, axis, 1, m.val, 0, p, lg)

\* HSplit._draw_content (axis 1) / VSplit._draw_content (axis 2)
Split_draw_content(T, i, axis, p, lg) ==
    IF T[i].items = <<>> THEN Drawn(T, p, lg)
    ELSE Split_draw_content_then_items(i, axis, p, lg, Split_get_item_sizes(T, i, axis))

\* the loop of Grid._draw_content, once item idx is drawn as d:
\* p.restore_region(2), then the next item
Grid_draw_items_then_next(i, idx, rc, g, d) ==
    IF d.err # "" THEN d
    ELSE Grid_draw_items(d.W, i, idx + 1, rc, g, restore_region(d.p, 2), d.log)

\* the loop of Grid._draw_content, once p has moved to the cell of item idx
\* (p1), item_bg is drawn in it and the item is measured as s
Grid_draw_items_then_draw(i, idx, rc, g, p1, lg, s) ==
    LET item == s.W[i].items[idx + 1]
        x == AlignPos(s.W[i].item_halign, g[1], s.val[1])
        y == AlignPos(s.W[i].item_valign, g[2], s.val[2])
        lg1 == draw_item_bg(s.W, i, item, p1, Append(lg, Event("slot", item, p1)))
    IN IF s.err # "" THEN DrawRaise(s.W, p1, lg1, s.err)
       ELSE Grid_draw_items_then_next(i, idx, rc, g,
               draw(s.W, item, move_region(p1, <<x, y>>, s.val), lg1))

\* the loop of Grid._draw_content placing every item in row-major order,
\* whatever `vertical` says
Grid_draw_items_row_major(T, i, idx, rc, g, p, lg) ==
    LET c == rc[2]
        row == idx \div c
        col == idx % c
    IN IF idx >= Len(T[i].items) THEN Drawn(T, p, lg)
       ELSE Grid_draw_items_then_draw(i, idx, rc, g,
               move_region(p, <<col * (g[1] + T[i].hsep), row * (g[2] + T[i].vsep)>>, g),
               lg, get_self_size(T, T[i].items[idx + 1]))

\* the loop of Grid._draw_content from index idx (0-based) on
Grid_draw_items(T, i, idx, rc, g, p, lg) ==
    LET r == rc[1]
        c == rc[2]
        row == IF ~T[i].vertical THEN idx \div c ELSE idx % r
        col == IF ~T[i].vertical THEN idx % c ELSE idx \div r
    IN IF idx >= Len(T[i].items) THEN Drawn(T, p, lg)
       ELSE Grid_draw_items_then_draw(i, idx, rc, g,
               move_region(p, <<col * (g[1] + T[i].hsep), row * (g[2] + T[i].vsep)>>, g),
               lg, get_self_size(T, T[i].items[idx + 1]))

\* Grid._draw_content, once the grid is computed as m
Grid_draw_content_then_items(i, p, lg, m) ==
    IF m.err # "" THEN DrawRaise(m.W, p, lg, m.err)
    ELSE Grid_draw_items(m.W, i, 0, m.val[1], m.val[2], p, lg)

\* Grid._draw_content
Grid_draw_content(T, i, p, lg) ==
    Grid_draw_content_then_items(i, p, lg, Grid_get_grid_rc_and_size(T, i))

\* ImageBox._draw_content, once the content size is computed as c: the image
\* is pasted at (0, 0), resized to the content size
ImageBox_draw_content_then_paste(i, p, lg, c) ==
    IF c.err # "" THEN DrawRaise(c.W, p, lg, c.err)
    ELSE Drawn(c.W, p, Append(lg, [Event("paste", i, p) EXCEPT !.size = c.val]))

\* ImageBox._draw_content
ImageBox_draw_content(T, i, p, lg) ==
    ImageBox_draw_content_then_paste(i, p, lg, get_content_size(T, i))

\* TextBox._draw_content: every line is drawn in a region of its own, pushed
\* by move_region and popped by restore_region
TextBox_draw_content(T, i, p, lg) == Drawn(T, p, lg)

\* _draw_content, dispatched on the class of the widget
draw_content(T, i, p, lg) ==
    CASE T[i].kind \in {"Frame", "Canvas"} -> Frame_draw_content(T, i, p, lg)
      [] T[i].kind \in {"HSplit", "VSplit"} ->
            Split_draw_content(T, i, Axis(T[i].kind), p, lg)
      [] T[i].kind = "Grid" -> Grid_draw_content(T, i, p, lg)
      [] T[i].kind = "ImageBox" -> ImageBox_draw_content(T, i, p, lg)
      [] T[i].kind = "Spacer" -> Drawn(T, p, lg)
      [] T[i].kind = "TextBox" -> TextBox_draw_content(T, i, p, lg)

\* the offset of Widget.draw on one axis, measured from the anchor
AnchorOffset(anchor, off, extent) ==
    CASE anchor \in {"l", "t"} -> off
      [] anchor \in {"r", "b"} -> off - extent
      [] OTHER -> off - extent \div 2

\* Widget.draw restoring three regions instead of four
draw_then_restore_three(i, d) ==
    LET p5 == restore_region(d.p, 3)
    IN IF d.err # "" THEN d
       ELSE Drawn(d.W, p5, Append(d.log, Event("end", i, p5)))

\* Widget.draw, once the content is drawn as d: p.restore_region(4)
draw_then_restore(i, d) ==
    LET p5 == restore_region(d.p, 4)
    IN IF d.err # "" THEN d
       ELSE Drawn(d.W, p5, Append(d.log, Event("end", i, p5)))

\* Widget.draw, once the content position is computed as cpos; p3 is the
\* region inside the padding: p.move_region(content_pos), _draw_content
draw_then_content(i, p3, lg2, cpos) ==
    LET p4 == move_region(p3, cpos.val, NoSize)
    IN IF cpos.err # "" THEN DrawRaise(cpos.W, p3, lg2, cpos.err)
       ELSE draw_then_restore(i,
               draw_content(cpos.W, i, p4, Append(lg2, Event("content", i, p4))))

\* Widget.draw, once the self size is computed as s and the assertion on the
\* region has passed: the offset, the margin (_draw_self paints the
\* background and runs the draw hooks in p2), the padding
draw_then_self(i, p, lg0, T1) ==
    LET me == T1[i]
        offset_x == AnchorOffset(me.offset_xanchor, me.offset[1], p.w)
        offset_y == AnchorOffset(me.offset_yanchor, me.offset[2], p.h)
        p1 == move_region(p, <<offset_x, offset_y>>, NoSize)
        p2 == shrink_region(p1, <<me.hmargin, me.vmargin>>)
    IN draw_then_content(i, shrink_region(p2, <<me.hpadding, me.vpadding>>),
                         draw_self(me, i, p2, Append(lg0, Event("self", i, p2))),
                         get_content_pos(T1, i))

\* Widget.draw, once the self size is computed as s: the assertion
draw_then_assert(i, p, lg0, s) ==
    IF s.err # "" THEN DrawRaise(s.W, p, lg0, s.err)
    ELSE IF p.size # s.val THEN DrawRaise(s.W, p, lg0, DrawSizeError)
    ELSE draw_then_self(i, p, lg0, s.W)

\* Widget.draw
draw(T, i, p, lg) ==
    draw_then_assert(i, p, Append(lg, Event("draw", i, p)), get_self_size(T, i))

CanvasTooLarge == "AssertionError: Canvas size is too large"

\* the outcome of Canvas.get_img when no image is allocated
NoImage(T, err) ==
    [W |-> T, p |-> NewPainter(<<0, 0>>), log |-> <<>>, err |-> err,
     val |-> <<>>, alloc |-> <<>>]

\* Canvas.get_img, once the canvas is drawn as d into an image of size
\* alloc: p.get() is returned
Canvas_get_img_then_get(alloc, d) ==
    [W |-> d.W, p |-> d.p, log |-> d.log, err |-> d.err,
     val |-> IF d.err = "" THEN d.p.img_size ELSE <<>>, alloc |-> alloc]

\* the rest of Canvas.get_img, accepting a canvas of exactly
\* CanvasSide * CanvasSide pixels
Canvas_get_img_then_draw_le(i, s) ==
    IF s.err # "" THEN NoImage(s.W, s.err)
    ELSE IF ~(s.val[1] * s.val[2] <= CanvasSide * CanvasSide)
    THEN NoImage(s.W, CanvasTooLarge)
    ELSE Canvas_get_img_then_get(s.val, draw(s.W, i, NewPainter(s.val), <<>>))

\* Canvas.get_img, once the self size is computed as s: the assertion on the
\* pixel count, Image.new, the Painter, draw
Canvas_get_img_then_draw(i, s) ==
    IF s.err # "" THEN NoImage(s.W, s.err)
    ELSE IF ~(s.val[1] * s.val[2] < CanvasSide * CanvasSide)
    THEN NoImage(s.W, CanvasTooLarge)
    ELSE Canvas_get_img_then_get(s.val, draw(s.W, i, NewPainter(s.val), <<>>))

\* Canvas.get_img taking the size of the image from the explicit size of the
\* canvas, the tree being measured as it is drawn
Canvas_get_img_unmeasured(T, i) ==
    IF T[i].w # None /\ T[i].h # None
    THEN Canvas_get_img_then_get(<<T[i].w, T[i].h>>,
             draw([T EXCEPT ![i].calc_w = T[i].w, ![i].calc_h = T[i].h], i,
                  NewPainter(<<T[i].w, T[i].h>>), <<>>))
    ELSE Canvas_get_img_then_draw(i, get_self_size(T, i))

\* Canvas.get_img (scale = None): the widget table, the painter and the log
\* left behind; alloc is the size of the image allocated (<<>> if none), val
\* the size of the image returned (<<>> if none)
Canvas_get_img(T, i) == Canvas_get_img_then_draw(i, get_self_size(T, i))

(***************************************************************************)
(* Specification of the Painter alone: any sequence of region operations   *)
(* on a Painter constructed over an image.                                 *)
(***************************************************************************)
NoOp == [name |-> "init", pos |-> <<0, 0>>, size |-> NoSize, depth |-> 0,
         before |-> [offset |-> <<0, 0>>, size |-> <<0, 0>>, w |-> 0, h |-> 0],
         stackLen |-> 0, expect |-> <<>>]

TreeIdle ==
    /\ W = <<>>
    /\ wstack = <<>>
    /\ cfgErr = ""
    /\ nsets = 0
    /\ result = [kind |-> "none", size |-> <<>>, alloc |-> <<>>, err |-> ""]
    /\ log = <<>>
    /\ ctxvar = [c \in {0} |-> 0]
    /\ locals = <<>>
    /\ calls = <<>>

PainterInit ==
    /\ \E s \in ImgSizes : painter = NewPainter(s)
    /\ hist = <<>>
    /\ lastOp = NoOp
    /\ TreeIdle

\* a push: the ghost history records the active region it replaces
Pushed(name, pos, size, p2) ==
    /\ Len(painter.region_stack) < MaxStack
    /\ painter' = p2
    /\ hist' = Append(hist, Active(painter))
    /\ lastOp' = [name |-> name, pos |-> pos, size |-> size, depth |-> 0,
                  before |-> Active(painter),
                  stackLen |-> Len(painter.region_stack), expect |-> <<>>]
    /\ UNCHANGED <<treeVars, ctxVars>>

SetRegion ==
    \E pos \in PosSet, size \in SizeSet :
        Pushed("set_region", pos, size, set_region(painter, pos, size))

ShrinkRegion ==
    \E dlt \in PosSet :
        Pushed("shrink_region", dlt, NoSize, shrink_region(painter, dlt))

ExpandRegion ==
    \E dlt \in PosSet :
        Pushed("expand_region", dlt, NoSize, expand_region(painter, dlt))

MoveRegion ==
    \E dlt \in PosSet, size \in SizeSet \cup {NoSize} :
        Pushed("move_region", dlt, size, move_region(painter, dlt, size))

RestoreRegion ==
    \E depth \in 0..MaxRestore :
        LET n == Len(hist)
            k == IF depth > 1 THEN depth ELSE 1
            keep == IF k <= n THEN n - k ELSE 0
        IN /\ painter' = restore_region(painter, depth)
           /\ hist' = SubSeq(hist, 1, keep)
           /\ lastOp' = [name |-> "restore_region", pos |-> <<0, 0>>,
                         size |-> NoSize, depth |-> depth,
                         before |-> Active(painter),
                         stackLen |-> Len(painter.region_stack),
                         expect |-> IF k <= n THEN <<hist[n - k + 1]>> ELSE <<>>]
           /\ UNCHANGED <<treeVars, ctxVars>>

PainterNext ==
    \/ SetRegion
    \/ ShrinkRegion
    \/ ExpandRegion
    \/ MoveRegion
    \/ RestoreRegion

PainterSpec == PainterInit /\ [][PainterNext]_vars

(***************************************************************************)
(* Building a tree and rendering it: the widgets are constructed inside    *)
(* nested `with` blocks (each new widget registers itself into the         *)
(* innermost open container), configured by setter calls chained on the    *)
(* widget just constructed, and Canvas.get_img is called once every block  *)
(* is closed.                                                              *)
(***************************************************************************)
\* (w, h) of Spacer(w, h)
SpacerSizes == {<<10, 10>>, <<20, 6>>}
\* the bitmap of an ImageBox
ImageSize == <<12, 8>>
\* arguments of set_size / set_w / set_h
SetSizes == {<<5, 5>>, <<CanvasSide, CanvasSide>>, <<CanvasSide, CanvasSide - 1>>}
SetExtents == {50}
\* arguments of set_padding / set_margin (an int, or a pair (h, v))
SetInsets == {<<1, 3>>}
\* arguments of set_content_align / set_item_align / set_offset_anchor
SetAligns == {"c", "rb", "x"}
SetOffsets == {<<3, -2>>}
SetSeps == {3}
SetRatios == {<<1>>, <<1, 2>>}
SetCounts == {1}

\* Frame.add_item / HSplit.add_item / VSplit.add_item / Grid.add_item
add_item(T, c, x) ==
    [T EXCEPT ![x].parent = c, ![c].items = Append(T[c].items, x)]

\* Widget.get_current_widget: 0 stands for None
get_current_widget == IF wstack = <<>> THEN 0 ELSE wstack[Len(wstack)]

Building == result.kind = "none" /\ cfgErr = ""

\* a constructor call: Widget.__init__ registers the new widget into the
\* current container, then the subclass sets its own attributes (w0)
Construct(w0) ==
    /\ Building
    /\ Len(W) + nsets < MaxBuildCalls
    /\ LET i == Len(W) + 1
           T == Append(W, w0)
       IN W' = IF get_current_widget # 0 THEN add_item(T, get_current_widget, i) ELSE T
    /\ UNCHANGED <<ctxVars, wstack, cfgErr, nsets, result, log, painterVars>>

\* a constructor call that raises err after Widget.__init__ has registered the
\* new widget: the widget stays in the current container as w0
ConstructRaise(w0, err) ==
    /\ Building
    /\ Len(W) + nsets < MaxBuildCalls
    /\ LET i == Len(W) + 1
           T == Append(W, w0)
       IN W' = IF get_current_widget # 0 THEN add_item(T, get_current_widget, i) ELSE T
    /\ cfgErr' = err
    /\ UNCHANGED <<ctxVars, wstack, nsets, result, log, painterVars>>

\* Canvas(): Canvas.__init__ with w = h = None, bg = None
NewCanvas ==
    /\ W = <<>>
    /\ Construct(Widget_init("Canvas"))

\* Frame()
NewFrame ==
    /\ wstack # <<>>
    /\ Construct(Widget_init("Frame"))

\* HSplit(ratios = r) / VSplit(ratios = r); <<>> stands for ratios = None
NewSplit ==
    /\ wstack # <<>>
    /\ \E kind \in {"HSplit", "VSplit"}, r \in {<<>>, <<1>>} :
          Construct([Widget_init(kind) EXCEPT !.ratios = r])

\* Grid(row_count = r, col_count = c): one of them given, neither, or both
\* (the constructor asserts that they are not both set)
NewGrid ==
    /\ wstack # <<>>
    /\ \E rc \in {<<None, 2>>, <<None, None>>, <<1, 1>>} :
          LET g == [Widget_init("Grid") EXCEPT !.row_count = rc[1], !.col_count = rc[2]]
          IN IF Truthy(rc[1]) /\ Truthy(rc[2])
             THEN ConstructRaise(g, RowColError)
             ELSE Construct(g)

\* Spacer(w, h)
NewSpacer ==
    /\ wstack # <<>>
    /\ \E sz \in SpacerSizes :
          Construct([Widget_init("Spacer") EXCEPT !.w = sz[1], !.h = sz[2]])

\* ImageBox(image, image_size_mode = mode): no size given
NewImageBox ==
    /\ wstack # <<>>
    /\ \E mode \in {"original", "fit"} :
          Construct([Widget_init("ImageBox") EXCEPT !.image = ImageSize,
                                                    !.image_size_mode = mode])

OverflowError == "AssertionError: overflow"

\* TextBox(overflow = o) with the empty text: the constructor asserts the
\* overflow mode, then sets the padding
NewTextBox ==
    /\ wstack # <<>>
    /\ \E o \in {"shrink", "x"} :
          IF o \notin {"shrink", "clip"}
          THEN ConstructRaise(Widget_init("TextBox"), OverflowError)
          ELSE Construct([Widget_init("TextBox") EXCEPT !.overflow = o,
                             !.hpadding = TextBoxPadding, !.vpadding = TextBoxPadding,
                             !.hmargin = 0, !.vmargin = 0])

\* Widget.__enter__, on the container just constructed
Enter ==
    /\ Building
    /\ W # <<>>
    /\ W[Len(W)].kind \in Containers
    /\ \A k \in 1..Len(wstack) : wstack[k] # Len(W)
    /\ wstack' = Append(wstack, Len(W))
    /\ UNCHANGED <<ctxVars, W, cfgErr, nsets, result, log, painterVars>>

\* Widget.__exit__, on the innermost open container
Exit ==
    /\ Building
    /\ wstack # <<>>
    /\ wstack' = SubSeq(wstack, 1, Len(wstack) - 1)
    /\ UNCHANGED <<ctxVars, W, cfgErr, nsets, result, log, painterVars>>

\* a setter call on the widget just constructed: it leaves the widget as
\* `me`, or raises err and leaves everything as it was
Setter(kinds, me, err) ==
    /\ Building
    /\ W # <<>>
    /\ W[Len(W)].kind \in kinds
    /\ Len(W) + nsets < MaxBuildCalls
    /\ nsets' = nsets + 1
    /\ cfgErr' = err
    /\ W' = IF err = "" THEN [W EXCEPT ![Len(W)] = me] ELSE W
    /\ UNCHANGED <<ctxVars, wstack, result, log, painterVars>>

AllKinds == Containers \cup {"Spacer", "ImageBox", "TextBox"}
SplitKinds == {"HSplit", "VSplit"}
Newest == W[Len(W)]

\* Widget.set_size
SetSize ==
    \E sz \in SetSizes :
        Setter(AllKinds, [Newest EXCEPT !.w = sz[1], !.h = sz[2]], "")

\* Widget.set_w
SetW ==
    \E x \in SetExtents : Setter(AllKinds, [Newest EXCEPT !.w = x], "")

\* Widget.set_h
SetH ==
    \E x \in SetExtents : Setter(AllKinds, [Newest EXCEPT !.h = x], "")

\* Widget.set_padding
SetPadding ==
    \E d \in SetInsets :
        Setter(AllKinds, [Newest EXCEPT !.hpadding = d[1], !.vpadding = d[2]], "")

\* Widget.set_margin
SetMargin ==
    \E d \in SetInsets :
        Setter(AllKinds, [Newest EXCEPT !.hmargin = d[1], !.vmargin = d[2]], "")

InvalidAlign == "ValueError: Invalid align"

\* Widget.set_content_align
SetContentAlign ==
    \E a \in SetAligns :
        IF a \notin AlignTokens THEN Setter(AllKinds, Newest, InvalidAlign)
        ELSE Setter(AllKinds, [Newest EXCEPT !.content_halign = ALIGN_MAP(a)[1],
                                             !.content_valign = ALIGN_MAP(a)[2]], "")

\* Widget.set_offset
SetOffset ==
    \E o \in SetOffsets : Setter(AllKinds, [Newest EXCEPT !.offset = o], "")

\* Widget.set_offset_anchor
SetOffsetAnchor ==
    \E a \in SetAligns :
        IF a \notin AlignTokens THEN Setter(AllKinds, Newest, "ValueError: Invalid anchor")
        ELSE Setter(AllKinds, [Newest EXCEPT !.offset_xanchor = ALIGN_MAP(a)[1],
                                             !.offset_yanchor = ALIGN_MAP(a)[2]], "")

\* HSplit.set_item_align / VSplit.set_item_align / Grid.set_item_align
SetItemAlign ==
    \E a \in SetAligns :
        IF a \notin AlignTokens
        THEN Setter(SplitKinds \cup {"Grid"}, Newest, InvalidAlign)
        ELSE Setter(SplitKinds \cup {"Grid"},
                    [Newest EXCEPT !.item_halign = ALIGN_MAP(a)[1],
                                   !.item_valign = ALIGN_MAP(a)[2]], "")

\* HSplit.set_sep / VSplit.set_sep
SetSep ==
    \E x \in SetSeps : Setter(SplitKinds, [Newest EXCEPT !.sep = x], "")

\* Grid.set_sep(hsep, vsep)
SetGridSep ==
    \E x \in SetSeps, y \in SetSeps :
        Setter({"Grid"}, [Newest EXCEPT !.hsep = x, !.vsep = y], "")

\* HSplit.set_ratios / VSplit.set_ratios
SetRatiosOf ==
    \E r \in SetRatios : Setter(SplitKinds, [Newest EXCEPT !.ratios = r], "")

\* HSplit.set_item_size_mode / VSplit.set_item_size_mode / Grid.set_item_size_mode
SetItemSizeMode ==
    \E m \in {"expand", "x"} :
        IF m \notin {"expand", "fixed"}
        THEN Setter(SplitKinds \cup {"Grid"}, Newest, "AssertionError: item_size_mode")
        ELSE Setter(SplitKinds \cup {"Grid"}, [Newest EXCEPT !.item_size_mode = m], "")

\* Grid.set_row_count
SetRowCount ==
    \E n \in SetCounts :
        Setter({"Grid"}, [Newest EXCEPT !.row_count = n, !.col_count = None], "")

\* Grid.set_col_count
SetColCount ==
    \E n \in SetCounts :
        Setter({"Grid"}, [Newest EXCEPT !.col_count = n, !.row_count = None], "")

\* Grid.set_vertical
SetVertical ==
    \E b \in {TRUE} : Setter({"Grid"}, [Newest EXCEPT !.vertical = b], "")

\* ImageBox.set_image_size_mode
SetImageSizeMode ==
    \E m \in {"fill", "x"} :
        IF m \notin {"fit", "fill", "original"}
        THEN Setter({"ImageBox"}, Newest, "AssertionError: image_size_mode")
        ELSE Setter({"ImageBox"}, [Newest EXCEPT !.image_size_mode = m], "")

\* TextBox.set_overflow
SetOverflow ==
    \E o \in {"clip", "x"} :
        IF o \notin {"shrink", "clip"}
        THEN Setter({"TextBox"}, Newest, OverflowError)
        ELSE Setter({"TextBox"}, [Newest EXCEPT !.overflow = o], "")

\* Canvas.get_img(), called on the root once every `with` block is closed
GetImg ==
    /\ Building
    /\ W # <<>>
    /\ W[1].kind = "Canvas"
    /\ wstack = <<>>
    /\ LET g == Canvas_get_img(W, 1)
       IN /\ W' = g.W
          /\ painter' = g.p
          /\ log' = g.log
          /\ result' = [kind |-> IF g.err = "" THEN "image" ELSE "error",
                        size |-> g.val, alloc |-> g.alloc, err |-> g.err]
    /\ UNCHANGED <<ctxVars, wstack, cfgErr, nsets, hist, lastOp>>

Init ==
    /\ painter = NewPainter(<<0, 0>>)
    /\ hist = <<>>
    /\ lastOp = NoOp
    /\ TreeIdle

Next ==
    \/ NewCanvas
    \/ NewFrame
    \/ NewSplit
    \/ NewGrid
    \/ NewSpacer
    \/ NewImageBox
    \/ NewTextBox
    \/ Enter
    \/ Exit
    \/ SetSize
    \/ SetW
    \/ SetH
    \/ SetPadding
    \/ SetMargin
    \/ SetContentAlign
    \/ SetOffset
    \/ SetOffsetAnchor
    \/ SetItemAlign
    \/ SetSep
    \/ SetGridSep
    \/ SetRatiosOf
    \/ SetItemSizeMode
    \/ SetRowCount
    \/ SetColCount
    \/ SetVertical
    \/ SetImageSizeMode
    \/ SetOverflow
    \/ GetImg

Spec == Init /\ [][Next]_vars


(***************************************************************************)
(* Specification of programmatic composition: widgets are constructed      *)
(* outside any `with` block and linked by items lists, add_item and        *)
(* set_items.                                                              *)
(***************************************************************************)
\* item.set_parent(parent) for every item of a list; 0 stands for None
set_parents(T, items, parent) ==
    [x \in 1..Len(T) |->
        IF \E k \in 1..Len(items) : items[k] = x
        THEN [T[x] EXCEPT !.parent = parent] ELSE T[x]]

\* Frame / HSplit / VSplit / Grid __init__ with an items list
Container_init(T, kind, items) ==
    LET c == Len(T) + 1
        T1 == Append(T, [Widget_init(kind) EXCEPT !.items = items])
    IN set_parents(T1, items, c)

\* Frame / HSplit / VSplit / Grid set_items
set_items(T, c, items) ==
    LET T1 == set_parents(T, T[c].items, 0)
        T2 == [T1 EXCEPT ![c].items = items]
    IN set_parents(T2, items, c)

\* the items lists a caller passes: distinct widgets constructed so far
ItemLists(T) ==
    {<<>>} \cup {<<x>> : x \in 1..Len(T)}
           \cup {<<p[1], p[2]>> : p \in {q \in (1..Len(T)) \X (1..Len(T)) : q[1] # q[2]}}

Composing == wstack = <<>> /\ result.kind = "none" /\ cfgErr = ""

\* Spacer(w, h) outside any `with` block
ComposeSpacer ==
    /\ Composing
    /\ Len(W) < MaxComposed
    /\ \E sz \in SpacerSizes :
          W' = Append(W, [Widget_init("Spacer") EXCEPT !.w = sz[1], !.h = sz[2]])
    /\ UNCHANGED <<ctxVars, wstack, cfgErr, nsets, result, log, painterVars>>

\* Frame(items) / HSplit(items) / VSplit(items) / Grid(items, col_count = 2)
ComposeContainer ==
    /\ Composing
    /\ Len(W) < MaxComposed
    /\ \E kind \in {"Frame", "HSplit"}, items \in ItemLists(W) :
          W' = Container_init(W, kind, items)
    /\ UNCHANGED <<ctxVars, wstack, cfgErr, nsets, result, log, painterVars>>

\* container.add_item(item)
AddItem ==
    /\ Composing
    /\ nsets < MaxLinkCalls
    /\ \E c \in 1..Len(W), x \in 1..Len(W) :
          /\ W[c].kind \in Containers
          /\ x # c
          /\ W' = add_item(W, c, x)
    /\ nsets' = nsets + 1
    /\ UNCHANGED <<ctxVars, wstack, cfgErr, result, log, painterVars>>

\* container.set_items(items)
SetItems ==
    /\ Composing
    /\ nsets < MaxLinkCalls
    /\ \E c \in 1..Len(W) :
          /\ W[c].kind \in Containers
          /\ \E items \in ItemLists(W) :
                /\ \A k \in 1..Len(items) : items[k] # c
                /\ W' = set_items(W, c, items)
    /\ nsets' = nsets + 1
    /\ UNCHANGED <<ctxVars, wstack, cfgErr, result, log, painterVars>>

ComposeNext ==
    \/ ComposeSpacer
    \/ ComposeContainer
    \/ AddItem
    \/ SetItems

ComposeSpec == Init /\ [][ComposeNext]_vars

(***************************************************************************)
(* Specification of layouts built with constructor arguments: the leaves   *)
(* first, then one container constructed over them with its items list and *)
(* its keyword arguments, then a Canvas that receives the container by     *)
(* add_item and is rendered by get_img.  Setters are called on the widget  *)
(* just constructed.                                                       *)
(***************************************************************************)
\* (w, h) of Spacer(w, h)
LeafSizes == {<<40, 20>>, <<10, 10>>}
\* the bitmaps of ImageBox(image, ...)
LayoutImages == {<<12, 8>>, <<13, 8>>}
\* the size argument of ImageBox(image, image_size_mode, size)
LayoutImageBounds == {<<60, None>>, <<None, 30>>, <<60, 30>>}
\* ratios of HSplit / VSplit; <<>> stands for ratios = None
LayoutRatios == {<<>>, <<1, 1>>}
LayoutSeps == {10}
\* (row_count, col_count) of Grid
LayoutCounts == {<<None, 2>>, <<None, 3>>, <<2, None>>, <<3, None>>}
\* (hsep, vsep) of Grid
LayoutGridSeps == {<<3, 5>>}
\* (w, h) of Canvas(w, h)
LayoutCanvasSizes == {<<100, 50>>, <<None, None>>}
\* arguments of set_size on a container
LayoutSizes == {<<100, 50>>, <<15, 15>>}
LayoutInsets == {<<1, 3>>}
LayoutAligns == {"c", "rb"}
\* arguments of set_content_align on a leaf
LayoutLeafAligns == {"rb"}

OnlySpacers == \A i \in 1..Len(W) : W[i].kind = "Spacer"
HasCanvas == \E i \in 1..Len(W) : W[i].kind = "Canvas"

\* the last widget of T, as changed by f
WithNewest(T, me) == [T EXCEPT ![Len(T)] = me]

\* Spacer(w, h) outside any `with` block
LayoutSpacer ==
    /\ Building
    /\ OnlySpacers
    /\ Len(W) < MaxLeaves
    /\ \E sz \in LeafSizes :
          W' = Append(W, [Widget_init("Spacer") EXCEPT !.w = sz[1], !.h = sz[2]])
    /\ UNCHANGED <<ctxVars, wstack, cfgErr, nsets, result, log, painterVars>>

\* ImageBox(image, image_size_mode = mode, size = size): set_size(size), then
\* set_image_size_mode(mode), set_margin(0), set_padding(0)
LayoutImageBox ==
    /\ Building
    /\ W = <<>>
    /\ \E img \in LayoutImages, mode \in {"fit", "fill"}, size \in LayoutImageBounds :
          W' = Append(W, [Widget_init("ImageBox") EXCEPT
                             !.image = img, !.image_size_mode = mode,
                             !.w = size[1], !.h = size[2],
                             !.hmargin = 0, !.vmargin = 0,
                             !.hpadding = 0, !.vpadding = 0])
    /\ UNCHANGED <<ctxVars, wstack, cfgErr, nsets, result, log, painterVars>>

\* the items list [W[1], ..., W[n]] of the widgets constructed so far
AllItems == [k \in 1..Len(W) |-> k]

\* Frame(items)
LayoutFrame ==
    /\ Building
    /\ OnlySpacers
    /\ W' = Container_init(W, "Frame", AllItems)
    /\ UNCHANGED <<ctxVars, wstack, cfgErr, nsets, result, log, painterVars>>

\* HSplit(items, ratios, sep, item_size_mode) / VSplit(...)
LayoutSplit ==
    /\ Building
    /\ OnlySpacers
    /\ \E kind \in {"HSplit", "VSplit"}, r \in LayoutRatios, sep \in LayoutSeps,
          mode \in {"fixed", "expand"} :
          LET T == Container_init(W, kind, AllItems)
          IN W' = WithNewest(T, [T[Len(T)] EXCEPT !.ratios = r, !.sep = sep,
                                                  !.item_size_mode = mode])
    /\ UNCHANGED <<ctxVars, wstack, cfgErr, nsets, result, log, painterVars>>

\* Grid(items, row_count, col_count, hsep, vsep, vertical)
LayoutGrid ==
    /\ Building
    /\ OnlySpacers
    /\ \E rc \in LayoutCounts, seps \in LayoutGridSeps, v \in BOOLEAN :
          LET T == Container_init(W, "Grid", AllItems)
          IN W' = WithNewest(T, [T[Len(T)] EXCEPT !.row_count = rc[1],
                                    !.col_count = rc[2], !.hsep = seps[1],
                                    !.vsep = seps[2], !.vertical = v])
    /\ UNCHANGED <<ctxVars, wstack, cfgErr, nsets, result, log, painterVars>>

\* Canvas(w, h) outside any `with` block: set_size((w, h)), set_margin(0)
LayoutCanvas ==
    /\ Building
    /\ W # <<>>
    /\ ~HasCanvas
    /\ \E sz \in LayoutCanvasSizes :
          W' = Append(W, [Widget_init("Canvas") EXCEPT !.w = sz[1], !.h = sz[2],
                                                       !.hmargin = 0, !.vmargin = 0])
    /\ UNCHANGED <<ctxVars, wstack, cfgErr, nsets, result, log, painterVars>>

\* canvas.add_item(x), x being the widget constructed just before the canvas
LayoutAddItem ==
    /\ Building
    /\ HasCanvas
    /\ W[Len(W)].items = <<>>
    /\ W' = add_item(W, Len(W), Len(W) - 1)
    /\ UNCHANGED <<ctxVars, wstack, cfgErr, nsets, result, log, painterVars>>

\* a setter call on the widget just constructed
LayoutSetter(kinds, me) ==
    /\ Building
    /\ W # <<>>
    /\ W[Len(W)].kind \in kinds
    /\ nsets < MaxLayoutSets
    /\ nsets' = nsets + 1
    /\ W' = WithNewest(W, me)
    /\ UNCHANGED <<ctxVars, wstack, cfgErr, result, log, painterVars>>

\* Widget.set_content_align
LayoutSetContentAlign ==
    \E a \in LayoutAligns :
        /\ W # <<>>
        /\ Newest.kind = "Spacer" => a \in LayoutLeafAligns
        /\ LayoutSetter({"Spacer", "Frame", "Canvas"},
                        [Newest EXCEPT !.content_halign = ALIGN_MAP(a)[1],
                                       !.content_valign = ALIGN_MAP(a)[2]])

\* Widget.set_size
LayoutSetSize ==
    \E sz \in LayoutSizes :
        LayoutSetter({"Frame", "HSplit", "VSplit", "Grid"},
                     [Newest EXCEPT !.w = sz[1], !.h = sz[2]])

\* Widget.set_padding
LayoutSetPadding ==
    \E d \in LayoutInsets :
        LayoutSetter({"HSplit", "VSplit"},
                     [Newest EXCEPT !.hpadding = d[1], !.vpadding = d[2]])

\* canvas.get_img(), once the canvas holds its item
LayoutGetImg ==
    /\ Building
    /\ HasCanvas
    /\ W[Len(W)].items # <<>>
    /\ LET g == Canvas_get_img(W, Len(W))
       IN /\ W' = g.W
          /\ painter' = g.p
          /\ log' = g.log
          /\ result' = [kind |-> IF g.err = "" THEN "image" ELSE "error",
                        size |-> g.val, alloc |-> g.alloc, err |-> g.err]
    /\ UNCHANGED <<ctxVars, wstack, cfgErr, nsets, hist, lastOp>>

LayoutNext ==
    \/ LayoutSpacer
    \/ LayoutImageBox
    \/ LayoutFrame
    \/ LayoutSplit
    \/ LayoutGrid
    \/ LayoutCanvas
    \/ LayoutAddItem
    \/ LayoutSetContentAlign
    \/ LayoutSetSize
    \/ LayoutSetPadding
    \/ LayoutGetImg

LayoutSpec == Init /\ [][LayoutNext]_vars

(***************************************************************************)
(* TextBox lines.  A text is the sequence of its characters.  The font is  *)
(* taken without kerning: get_text_size gives a text the sum of the        *)
(* advances of its glyphs, and the empty text the width 0.                 *)
(***************************************************************************)
\* the advance of a glyph of the font at the style's size
GlyphWidth(c) == IF c = "m" THEN 12 ELSE 4

RECURSIVE TextWidth(_)
\* get_text_size(font, text)[0]
TextWidth(text) ==
    IF text = <<>> THEN 0 ELSE GlyphWidth(Head(text)) + TextWidth(Tail(text))

\* the suffix '...' of overflow = 'shrink'
Ellipsis == <<".", ".", ".">>

\* text[:idx]; a negative idx counts from the end
SliceTo(text, idx) ==
    IF idx >= 0 THEN SubSeq(text, 1, Min2(idx, Len(text)))
    ELSE SubSeq(text, 1, Len(text) + idx)

\* text[idx:]; a negative idx counts from the end
SliceFrom(text, idx) ==
    IF idx >= 0 THEN SubSeq(text, idx + 1, Len(text))
    ELSE SubSeq(text, Max2(Len(text) + idx, 0) + 1, Len(text))

RECURSIVE split(_, _)
\* text.split('\n'), cur being the part of the current line already read
split(text, cur) ==
    IF text = <<>> THEN <<cur>>
    ELSE IF Head(text) = "\n" THEN <<cur>> \o split(Tail(text), <<>>)
    ELSE split(Tail(text), Append(cur, Head(text)))

RECURSIVE TextBox_get_clip_text_to_width_idx_while(_, _, _, _, _)
\* TextBox._get_clip_text_to_width_idx, the binary search `while l <= r`
TextBox_get_clip_text_to_width_idx_while(text, width, suffix, l, r) ==
    IF l > r THEN r
    ELSE LET m == (l + r) \div 2
             w == TextWidth(SubSeq(text, 1, m)) + TextWidth(suffix)
         IN IF w < width
            THEN TextBox_get_clip_text_to_width_idx_while(text, width, suffix, m + 1, r)
            ELSE IF w > width
            THEN TextBox_get_clip_text_to_width_idx_while(text, width, suffix, l, m - 1)
            ELSE m

\* TextBox._get_clip_text_to_width_idx: None when text + suffix fits
TextBox_get_clip_text_to_width_idx(text, width, suffix) ==
    IF TextWidth(text) + TextWidth(suffix) <= width THEN None
    ELSE TextBox_get_clip_text_to_width_idx_while(text, width, suffix, 0, Len(text))

\* the lines collected by TextBox._get_lines; hang tells that its `while True`
\* loop does not end
Lines(lines) == [lines |-> lines, hang |-> FALSE]
Hang(lines) == [lines |-> lines, hang |-> TRUE]

RECURSIVE TextBox_get_lines_while(_, _, _, _, _)
\* TextBox._get_lines, the `while True` loop after the clipped line is
\* appended and the line shortened to rest: the loop ends at line_count
\* lines; past line_count lines a pass that leaves the line as it was
\* repeats for ever
TextBox_get_lines_while_then_append(rest, line, clipped, w, suffix, line_count) ==
    IF Len(clipped) = line_count THEN Lines(clipped)
    ELSE IF rest = line /\ Len(clipped) > line_count THEN Hang(clipped)
    ELSE TextBox_get_lines_while(rest, clipped, w, suffix, line_count)

\* TextBox._get_lines, the `while True` loop once clip_idx is computed
TextBox_get_lines_while_then_clip(line, clipped, w, suffix, line_count, line_suffix, clip_idx) ==
    IF clip_idx = None THEN Lines(Append(clipped, line))
    ELSE TextBox_get_lines_while_then_append(
             SliceFrom(line, clip_idx), line,
             Append(clipped, SliceTo(line, clip_idx) \o line_suffix),
             w, suffix, line_count)

\* TextBox._get_lines, the `while True` loop once line_suffix is chosen
TextBox_get_lines_while_then_suffix(line, clipped, w, suffix, line_count, line_suffix) ==
    TextBox_get_lines_while_then_clip(line, clipped, w, suffix, line_count, line_suffix,
        TextBox_get_clip_text_to_width_idx(line, w, line_suffix))

\* TextBox._get_lines, the `while True` loop that wraps one line of the text
TextBox_get_lines_while(line, clipped, w, suffix, line_count) ==
    TextBox_get_lines_while_then_suffix(line, clipped, w, suffix, line_count,
        IF Len(clipped) = line_count - 1 THEN suffix ELSE <<>>)

\* TextBox._get_lines, wrap = False: the line clipped to the width
TextBox_get_lines_then_clip(line, suffix, clip_idx) ==
    IF clip_idx = None THEN line ELSE SliceTo(line, clip_idx) \o suffix

RECURSIVE TextBox_get_lines_for(_, _, _)
\* TextBox._get_lines, the rest of `for line in lines` after a line is wrapped
TextBox_get_lines_for_then_wrap(me, lines, r) ==
    IF r.hang THEN r ELSE TextBox_get_lines_for(me, Tail(lines), r.lines)

\* TextBox._get_lines, the loop `for line in lines`
TextBox_get_lines_for(me, lines, clipped) ==
    IF lines = <<>> THEN Lines(clipped)
    ELSE IF ~Truthy(me.w)
    THEN TextBox_get_lines_for(me, Tail(lines), Append(clipped, Head(lines)))
    ELSE IF me.wrap
    THEN TextBox_get_lines_for_then_wrap(me, lines,
             TextBox_get_lines_while(Head(lines), clipped, me.w - me.hpadding * 2,
                 IF me.overflow = "shrink" THEN Ellipsis ELSE <<>>, me.line_count))
    ELSE TextBox_get_lines_for(me, Tail(lines),
             Append(clipped,
                 TextBox_get_lines_then_clip(Head(lines),
                     IF me.overflow = "shrink" THEN Ellipsis ELSE <<>>,
                     TextBox_get_clip_text_to_width_idx(Head(lines),
                         me.w - me.hpadding * 2,
                         IF me.overflow = "shrink" THEN Ellipsis ELSE <<>>))))

\* TextBox._get_lines, the return: clipped_lines[:self.line_count]
TextBox_get_lines_then_return(me, r) ==
    IF r.hang THEN r ELSE Lines(SliceTo(r.lines, me.line_count))

\* TextBox._get_lines
TextBox_get_lines(me) ==
    TextBox_get_lines_then_return(me, TextBox_get_lines_for(me, split(me.text, <<>>), <<>>))

(***************************************************************************)
(* A program that constructs one TextBox with a text, may give it a width  *)
(* and asks for its lines.                                                 *)
(***************************************************************************)
TextChars == {"i", "m", "\n"}
\* the texts of at most MaxTextLen characters
Texts == UNION {[1..n -> TextChars] : n \in 0..MaxTextLen}
\* arguments of set_w
TextWidths == {0, 10, 16, 40}
\* line_count of TextBox(text, line_count = k)
TextLineCounts == {1, 2}

\* TextBox(text, line_count = k, wrap = wrap, overflow = o)
TextNew ==
    /\ Building
    /\ W = <<>>
    /\ \E text \in Texts, k \in TextLineCounts, wrap \in BOOLEAN,
          o \in {"shrink", "clip"} :
          W' = <<[Widget_init("TextBox") EXCEPT
                     !.text = text, !.line_count = k, !.wrap = wrap,
                     !.overflow = o,
                     !.hpadding = TextBoxPadding, !.vpadding = TextBoxPadding]>>
    /\ UNCHANGED <<ctxVars, wstack, cfgErr, nsets, result, log, painterVars>>

\* set_w(w) on the text box
TextSetW ==
    /\ Building
    /\ W # <<>>
    /\ nsets < MaxTextSets
    /\ \E w \in TextWidths : W' = [W EXCEPT ![1].w = w]
    /\ nsets' = nsets + 1
    /\ UNCHANGED <<ctxVars, wstack, cfgErr, result, log, painterVars>>

\* the text box's _get_lines()
TextGetLines ==
    /\ Building
    /\ W # <<>>
    /\ LET r == TextBox_get_lines(W[1])
       IN result' = [kind |-> IF r.hang THEN "hang" ELSE "lines",
                     size |-> r.lines, alloc |-> <<>>, err |-> ""]
    /\ UNCHANGED <<ctxVars, W, wstack, cfgErr, nsets, log, painterVars>>

TextNext ==
    \/ TextNew
    \/ TextSetW
    \/ TextGetLines

TextSpec == Init /\ [][TextNext]_vars

(***************************************************************************)
(* Specification of the calls of _get_clip_text_to_width_idx: a text box   *)
(* is asked where to clip one line (a text without newline) to a width,    *)
(* with the suffix '...' or none; the call is recorded with its result.    *)
(***************************************************************************)
\* the lines _get_lines hands to _get_clip_text_to_width_idx
ClipTexts == {t \in Texts : \A k \in 1..Len(t) : t[k] # "\n"}
\* the widths it hands over: self.w - self.hpadding * 2, under `if self.w`
ClipWidths == {w - 2 * TextBoxPadding : w \in TextWidths \ {0}}

\* self._get_clip_text_to_width_idx(text, width, suffix)
ClipCall ==
    /\ Building
    /\ \E text \in ClipTexts, width \in ClipWidths, suffix \in {<<>>, Ellipsis} :
          calls' = <<[op |-> "clip", text |-> text, width |-> width,
                      suffix |-> suffix,
                      idx |-> TextBox_get_clip_text_to_width_idx(text, width, suffix)]>>
    /\ UNCHANGED <<W, wstack, cfgErr, nsets, result, log, painterVars, ctxvar, locals>>

ClipNext == ClipCall

ClipSpec == Init /\ [][ClipNext]_vars

(***************************************************************************)
(* Building in several execution contexts.  Context 0 is the one the       *)
(* program starts in; a task is created with a copy of the context of its  *)
(* creator, in which Widget._thread_local holds what it held there: the    *)
(* same `local` object, not a copy of it.  All tasks run on one thread, so *)
(* the attribute wstack of a `local` object is one list for all of them.   *)
(***************************************************************************)
\* Widget.get_current_widget_stack in context c: none stands for None
Ctx_get_current_widget_stack(c) ==
    IF ctxvar[c] = 0 THEN [none |-> TRUE, stk |-> <<>>]
    ELSE [none |-> FALSE, stk |-> locals[ctxvar[c]]]

\* Widget.get_current_widget taking the outermost open container
Ctx_get_current_widget_then_bottom(stk) ==
    IF stk.none THEN [val |-> 0, err |-> ""]
    ELSE IF stk.stk = <<>> THEN [val |-> 0, err |-> "IndexError"]
    ELSE [val |-> stk.stk[1], err |-> ""]

\* Widget.get_current_widget in context c, once the stack is read: 0 stands
\* for None; stk[-1] of an empty list raises
Ctx_get_current_widget_then_top(stk) ==
    IF stk.none THEN [val |-> 0, err |-> ""]
    ELSE IF stk.stk = <<>> THEN [val |-> 0, err |-> "IndexError"]
    ELSE [val |-> stk.stk[Len(stk.stk)], err |-> ""]

\* Widget.get_current_widget in context c
Ctx_get_current_widget(c) ==
    Ctx_get_current_widget_then_top(Ctx_get_current_widget_stack(c))

\* a call recorded in the history
Call(op, c, i, into, err) == [op |-> op, ctx |-> c, id |-> i, into |-> into, err |-> err]

\* an exception was raised in context c, which ended its build
Failed(c) == \E k \in 1..Len(calls) : calls[k].ctx = c /\ calls[k].err # ""

\* context c can make a builder call
Running(c) ==
    /\ c \in DOMAIN ctxvar
    /\ ~Failed(c)
    /\ Len(calls) < MaxCtxCalls

\* the widgets constructed in context c
BuiltBy(c) ==
    {calls[k].id : k \in {j \in 1..Len(calls) :
                            calls[j].op = "construct" /\ calls[j].ctx = c /\ calls[j].err = ""}}

\* asyncio.create_task in context 0: the task starts with a copy of the context
CtxFork ==
    /\ \E t \in 1..MaxTasks :
          /\ t \notin DOMAIN ctxvar
          /\ t - 1 \in DOMAIN ctxvar
          /\ ctxvar' = [c \in DOMAIN ctxvar \cup {t} |->
                           IF c = t THEN ctxvar[0] ELSE ctxvar[c]]
    /\ ~Failed(0)
    /\ UNCHANGED <<locals, calls, treeVars, painterVars>>

\* Widget.__init__ in context c, once the current widget is looked up
CtxConstruct_then_current(c, kind, cur) ==
    IF cur.err # ""
    THEN /\ calls' = Append(calls, Call("construct", c, 0, 0, cur.err))
         /\ W' = W
    ELSE /\ calls' = Append(calls, Call("construct", c, Len(W) + 1, cur.val, ""))
         /\ W' = IF cur.val # 0
                 THEN add_item(Append(W, Widget_init(kind)), cur.val, Len(W) + 1)
                 ELSE Append(W, Widget_init(kind))

\* Frame() / Spacer() called in context c
CtxConstruct ==
    /\ \E c \in DOMAIN ctxvar, kind \in {"Frame", "Spacer"} :
          /\ Running(c)
          /\ CtxConstruct_then_current(c, kind, Ctx_get_current_widget(c))
    /\ UNCHANGED <<ctxvar, locals, wstack, cfgErr, nsets, result, log, painterVars>>

\* Widget.__enter__ of container i in context c
Ctx_enter(c, i) ==
    /\ IF ctxvar[c] = 0
       THEN /\ locals' = Append(locals, <<i>>)
            /\ ctxvar' = [ctxvar EXCEPT ![c] = Len(locals) + 1]
       ELSE /\ locals' = [locals EXCEPT ![ctxvar[c]] = Append(@, i)]
            /\ ctxvar' = ctxvar
    /\ calls' = Append(calls, Call("enter", c, i, 0, ""))

\* `with` entered in context c on a container constructed there
CtxEnter ==
    /\ \E c \in DOMAIN ctxvar :
          /\ Running(c)
          /\ \E i \in BuiltBy(c) : W[i].kind \in Containers /\ Ctx_enter(c, i)
    /\ UNCHANGED <<treeVars, painterVars>>

\* Widget.__exit__ of container i in context c
Ctx_exit(c, i) ==
    LET local == ctxvar[c]
    IN IF local = 0
       THEN /\ calls' = Append(calls, Call("exit", c, i, 0, "AssertionError"))
            /\ UNCHANGED <<ctxvar, locals>>
       ELSE IF locals[local] = <<>>
       THEN /\ calls' = Append(calls, Call("exit", c, i, 0, "IndexError"))
            /\ UNCHANGED <<ctxvar, locals>>
       ELSE IF locals[local][Len(locals[local])] # i
       THEN /\ calls' = Append(calls, Call("exit", c, i, 0, "AssertionError"))
            /\ UNCHANGED <<ctxvar, locals>>
       ELSE /\ calls' = Append(calls, Call("exit", c, i, 0, ""))
            /\ locals' = [locals EXCEPT ![local] = SubSeq(@, 1, Len(@) - 1)]
            /\ ctxvar' = IF Len(locals[local]) = 1
                         THEN [ctxvar EXCEPT ![c] = 0] ELSE ctxvar

\* __exit__ called in context c on a container constructed there, by the end
\* of its `with` block or directly
CtxExit ==
    /\ \E c \in DOMAIN ctxvar :
          /\ Running(c)
          /\ \E i \in BuiltBy(c) : W[i].kind \in Containers /\ Ctx_exit(c, i)
    /\ UNCHANGED <<treeVars, painterVars>>

ConcurrentNext ==
    \/ CtxFork
    \/ CtxConstruct
    \/ CtxEnter
    \/ CtxExit

ConcurrentSpec == Init /\ [][ConcurrentNext]_vars

(***************************************************************************)
(* A program that measures widgets before it renders them: it constructs   *)
(* a Spacer, a Frame and a Canvas, asks widgets for their self size, calls *)
(* setters and add_item on them afterwards, and renders the canvas.        *)
(***************************************************************************)
\* (w, h) of Spacer(w, h)
RequerySpacerSizes == {<<40, 20>>, <<0, 10>>}
\* arguments of set_size
RequerySizes == {<<15, 15>>, <<60, 30>>}

HasKind(kind) == \E i \in 1..Len(W) : W[i].kind = kind

\* a call recorded in the history, with the size a query returned
QueryCall(i, r) ==
    [op |-> "query", ctx |-> 0, id |-> i, into |-> 0, err |-> r.err, size |-> r.val]

Queries == {k \in 1..Len(calls) : calls[k].op = "query"}

\* Spacer(w, h)
RequerySpacer ==
    /\ Building
    /\ W = <<>>
    /\ \E sz \in RequerySpacerSizes :
          W' = <<[Widget_init("Spacer") EXCEPT !.w = sz[1], !.h = sz[2]]>>
    /\ UNCHANGED <<ctxVars, wstack, cfgErr, nsets, result, log, painterVars>>

\* Frame() / Frame(items)
RequeryFrame ==
    /\ Building
    /\ ~HasKind("Frame") /\ ~HasKind("Canvas")
    /\ \E items \in {<<>>, AllItems} : W' = Container_init(W, "Frame", items)
    /\ UNCHANGED <<ctxVars, wstack, cfgErr, nsets, result, log, painterVars>>

\* Canvas(100, 50)
RequeryCanvas ==
    /\ Building
    /\ W # <<>>
    /\ ~HasKind("Canvas")
    /\ W' = Append(W, [Widget_init("Canvas") EXCEPT !.w = 100, !.h = 50,
                                                    !.hmargin = 0, !.vmargin = 0])
    /\ UNCHANGED <<ctxVars, wstack, cfgErr, nsets, result, log, painterVars>>

\* widget._get_self_size(), once computed as r
RequeryQuery_then_record(i, r) ==
    /\ W' = r.W
    /\ calls' = Append(calls, QueryCall(i, r))

\* widget._get_self_size()
RequeryQuery ==
    /\ Building
    /\ Cardinality(Queries) < MaxQueries
    /\ \E i \in 1..Len(W) : RequeryQuery_then_record(i, get_self_size(W, i))
    /\ UNCHANGED <<ctxvar, locals, wstack, cfgErr, nsets, result, log, painterVars>>

\* a setter call on widget i, which leaves it as me
RequerySetter(i, me) ==
    /\ Building
    /\ nsets < MaxRequerySets
    /\ nsets' = nsets + 1
    /\ W' = [W EXCEPT ![i] = me]
    /\ calls' = Append(calls, Call("set", 0, i, 0, ""))
    /\ UNCHANGED <<ctxvar, locals, wstack, cfgErr, result, log, painterVars>>

\* Widget.set_size
RequerySetSize ==
    \E i \in 1..Len(W), sz \in RequerySizes :
        RequerySetter(i, [W[i] EXCEPT !.w = sz[1], !.h = sz[2]])

\* Widget.set_padding / Widget.set_margin with a pair
RequerySetInset ==
    \E i \in 1..Len(W), d \in LayoutInsets :
        \/ RequerySetter(i, [W[i] EXCEPT !.hpadding = d[1], !.vpadding = d[2]])
        \/ RequerySetter(i, [W[i] EXCEPT !.hmargin = d[1], !.vmargin = d[2]])

\* container.add_item(x) for a widget x constructed before the container and
\* not yet among its items
RequeryAddItem ==
    /\ Building
    /\ nsets < MaxRequerySets
    /\ nsets' = nsets + 1
    /\ \E c \in 1..Len(W), x \in 1..Len(W) :
          /\ W[c].kind \in {"Frame", "Canvas"}
          /\ x < c
          /\ \A k \in 1..Len(W[c].items) : W[c].items[k] # x
          /\ W' = add_item(W, c, x)
          /\ calls' = Append(calls, Call("set", 0, c, x, ""))
    /\ UNCHANGED <<ctxvar, locals, wstack, cfgErr, result, log, painterVars>>

\* canvas.get_img()
RequeryGetImg ==
    /\ Building
    /\ HasKind("Canvas")
    /\ LET g == Canvas_get_img(W, Len(W))
       IN /\ W' = g.W
          /\ painter' = g.p
          /\ log' = g.log
          /\ result' = [kind |-> IF g.err = "" THEN "image" ELSE "error",
                        size |-> g.val, alloc |-> g.alloc, err |-> g.err]
    /\ UNCHANGED <<ctxVars, wstack, cfgErr, nsets, hist, lastOp>>

RequeryNext ==
    \/ RequerySpacer
    \/ RequeryFrame
    \/ RequeryCanvas
    \/ RequeryQuery
    \/ RequerySetSize
    \/ RequerySetInset
    \/ RequeryAddItem
    \/ RequeryGetImg

RequerySpec == Init /\ [][RequeryNext]_vars

(***************************************************************************)
(* Specification of nested layouts: Spacers and Grids without items, then  *)
(* one Frame, HSplit or VSplit constructed over them, then a Canvas that   *)
(* receives it and is rendered.                                            *)
(***************************************************************************)
\* (row_count, col_count) of a Grid without items
NestCounts == {<<None, 1>>, <<2, None>>}
\* sep of the HSplit / VSplit over the widgets
NestSeps == {0, 10}
\* the items list of the widgets that have no parent yet
Orphans == SelectSeq([k \in 1..Len(W) |-> k], LAMBDA k : W[k].parent = 0)
\* no Frame, HSplit or VSplit is constructed yet
Unnested == \A i \in 1..Len(W) : W[i].kind \in {"Spacer", "Grid"}

\* Spacer(w, h) outside any `with` block
NestSpacer ==
    /\ Building
    /\ Unnested
    /\ Len(W) < MaxNested
    /\ \E sz \in LeafSizes :
          W' = Append(W, [Widget_init("Spacer") EXCEPT !.w = sz[1], !.h = sz[2]])
    /\ UNCHANGED <<ctxVars, wstack, cfgErr, nsets, result, log, painterVars>>

\* Grid(row_count, col_count, hsep, vsep) without items
NestGrid ==
    /\ Building
    /\ Unnested
    /\ Len(W) < MaxNested
    /\ \E rc \in NestCounts, seps \in LayoutGridSeps :
          W' = Append(W, [Widget_init("Grid") EXCEPT
                             !.row_count = rc[1], !.col_count = rc[2],
                             !.hsep = seps[1], !.vsep = seps[2]])
    /\ UNCHANGED <<ctxVars, wstack, cfgErr, nsets, result, log, painterVars>>

\* Frame(items) / HSplit(items, sep = sep) / VSplit(items, sep = sep)
NestContainer ==
    /\ Building
    /\ Unnested
    /\ \E kind \in {"Frame", "HSplit", "VSplit"}, sep \in NestSeps :
          LET T == Container_init(W, kind, Orphans)
          IN W' = WithNewest(T, [T[Len(T)] EXCEPT !.sep = sep])
    /\ UNCHANGED <<ctxVars, wstack, cfgErr, nsets, result, log, painterVars>>

NestNext ==
    \/ NestSpacer
    \/ NestGrid
    \/ NestContainer
    \/ LayoutCanvas
    \/ LayoutAddItem
    \/ LayoutGetImg

NestSpec == Init /\ [][NestNext]_vars

(***************************************************************************)
(* Specification of painted trees: Spacers, one container constructed over *)
(* them, a Canvas that receives the container and is rendered.  After its  *)
(* construction a widget is given a background, draw hooks, a per-item     *)
(* background or omit_parent_bg by its setters.                            *)
(***************************************************************************)
\* the functions handed to add_draw_func
PaintHooks == {"f", "g"}
\* (w, h) of Spacer(w, h)
PaintSpacerSize == <<10, 10>>

\* Spacer(w, h) outside any `with` block
PaintSpacer ==
    /\ Building
    /\ OnlySpacers
    /\ Len(W) < MaxPainted
    /\ W' = Append(W, [Widget_init("Spacer") EXCEPT !.w = PaintSpacerSize[1],
                                                    !.h = PaintSpacerSize[2]])
    /\ UNCHANGED <<ctxVars, wstack, cfgErr, nsets, result, log, painterVars>>

\* Frame(items) / HSplit(items) / VSplit(items) / Grid(items, col_count = 2)
PaintContainer ==
    /\ Building
    /\ OnlySpacers
    /\ \E kind \in {"Frame", "HSplit", "VSplit", "Grid"} :
          LET T == Container_init(W, kind, AllItems)
          IN W' = WithNewest(T, [T[Len(T)] EXCEPT
                                    !.col_count = IF kind = "Grid" THEN 2 ELSE None])
    /\ UNCHANGED <<ctxVars, wstack, cfgErr, nsets, result, log, painterVars>>

\* Canvas() outside any `with` block: set_size((None, None)), set_margin(0)
PaintCanvas ==
    /\ Building
    /\ W # <<>>
    /\ ~OnlySpacers
    /\ ~HasCanvas
    /\ W' = Append(W, [Widget_init("Canvas") EXCEPT !.hmargin = 0, !.vmargin = 0])
    /\ UNCHANGED <<ctxVars, wstack, cfgErr, nsets, result, log, painterVars>>

\* a setter call on the widget just constructed
PaintSetter(kinds, me) ==
    /\ Building
    /\ W # <<>>
    /\ W[Len(W)].kind \in kinds
    /\ nsets < MaxPaintSets
    /\ nsets' = nsets + 1
    /\ W' = WithNewest(W, me)
    /\ UNCHANGED <<ctxVars, wstack, cfgErr, result, log, painterVars>>

\* Widget.set_bg
PaintSetBg ==
    /\ W # <<>>
    /\ ~Newest.bg
    /\ PaintSetter(AllKinds \ {"Canvas"}, [Newest EXCEPT !.bg = TRUE])

\* Widget.set_omit_parent_bg(True)
PaintSetOmitParentBg ==
    /\ W # <<>>
    /\ ~Newest.omit_parent_bg
    /\ PaintSetter({"Spacer"}, [Newest EXCEPT !.omit_parent_bg = TRUE])

\* Widget.add_draw_func
PaintAddDrawFunc ==
    \E f \in PaintHooks :
        /\ W # <<>>
        /\ \A k \in 1..Len(Newest.draw_funcs) : Newest.draw_funcs[k] # f
        /\ PaintSetter(AllKinds \ {"Canvas"}, [Newest EXCEPT !.draw_funcs = Append(@, f)])

\* HSplit.set_item_bg / VSplit.set_item_bg / Grid.set_item_bg
PaintSetItemBg ==
    /\ W # <<>>
    /\ ~Newest.item_bg
    /\ PaintSetter({"HSplit", "VSplit", "Grid"}, [Newest EXCEPT !.item_bg = TRUE])

PaintNext ==
    \/ PaintSpacer
    \/ PaintContainer
    \/ PaintCanvas
    \/ PaintSetBg
    \/ PaintSetOmitParentBg
    \/ PaintAddDrawFunc
    \/ PaintSetItemBg
    \/ LayoutAddItem
    \/ LayoutGetImg

PaintSpec == Init /\ [][PaintNext]_vars

(***************************************************************************)
(* Claims about the Painter (checked under PainterSpec).                   *)
(***************************************************************************)
StackTop(p) == p.region_stack[Len(p.region_stack)]

Plus(a, b) == <<a[1] + b[1], a[2] + b[2]>>

\* C8 (as stated): set_region(pos, size) pushes the current (offset, size) pair and
\* makes the active offset the previous offset plus pos, with the given size.
C8_SetRegionTranslates ==
    lastOp.name = "set_region" =>
        /\ Len(painter.region_stack) = lastOp.stackLen + 1
        /\ StackTop(painter) = <<lastOp.before.offset, lastOp.before.size>>
        /\ painter.offset = Plus(lastOp.before.offset, lastOp.pos)
        /\ painter.size = lastOp.size

\* C8 (amended): set_region(pos, size) pushes the current (offset, size) pair and
\* makes the active offset equal to pos itself (an absolute position) with the
\* given size; the translation new_offset = old_offset + delta is made by
\* move_region(delta, size), which pushes the same pair.
C8_SetRegionAbsolute ==
    /\ lastOp.name = "set_region" =>
        /\ Len(painter.region_stack) = lastOp.stackLen + 1
        /\ StackTop(painter) = <<lastOp.before.offset, lastOp.before.size>>
        /\ painter.offset = lastOp.pos
        /\ painter.size = lastOp.size
        /\ painter.w = lastOp.size[1] /\ painter.h = lastOp.size[2]
    /\ lastOp.name = "move_region" =>
        /\ Len(painter.region_stack) = lastOp.stackLen + 1
        /\ StackTop(painter) = <<lastOp.before.offset, lastOp.before.size>>
        /\ painter.offset = Plus(lastOp.before.offset, lastOp.pos)
        /\ painter.size = (IF lastOp.size = NoSize THEN lastOp.before.size ELSE lastOp.size)

\* set_region was called with a non-zero pos while the active offset was non-zero
C8_Witness ==
    /\ lastOp.name = "set_region"
    /\ lastOp.before.offset # <<0, 0>>
    /\ lastOp.pos # <<0, 0>>

\* C9: the region stack is LIFO: restore_region(k), called after k pushes
\* (k >= 1, by set_region / shrink_region / expand_region / move_region), pops
\* exactly k entries and leaves the active (offset, size, w, h) as it was before
\* the first of those k pushes, and the stack as deep as it was then.
C9_RestoreIsLIFO ==
    /\ Len(hist) = Len(painter.region_stack)
    /\ (lastOp.name = "restore_region" /\ lastOp.depth >= 1
            /\ lastOp.depth <= lastOp.stackLen) =>
        /\ Len(painter.region_stack) = lastOp.stackLen - lastOp.depth
        /\ Active(painter) = lastOp.expect[1]
        /\ painter.err = ""

\* restore_region(k) with k >= 2 has undone k pushes that had changed the region
C9_Witness ==
    /\ lastOp.name = "restore_region"
    /\ lastOp.depth >= 2
    /\ lastOp.depth <= lastOp.stackLen
    /\ Active(painter) # lastOp.before
    /\ painter.region_stack # <<>>

\* C10: restore_region called on an empty region stack raises nothing, leaves the
\* stack empty and makes the active region offset (0,0) with the size of the
\* owned image.
C10_RestoreOnEmpty ==
    (lastOp.name = "restore_region" /\ lastOp.stackLen = 0) =>
        /\ painter.err = ""
        /\ painter.region_stack = <<>>
        /\ painter.offset = <<0, 0>>
        /\ painter.size = painter.img_size
        /\ painter.w = painter.img_size[1]
        /\ painter.h = painter.img_size[2]

\* restore_region has been called on an empty stack
C10_Witness ==
    /\ lastOp.name = "restore_region"
    /\ lastOp.stackLen = 0
    /\ lastOp.depth >= 1

(***************************************************************************)
(* Claims about measuring and drawing a tree (checked under Spec).         *)
(***************************************************************************)
Called == result.kind # "none"

DrawEvents(i) == {k \in 1..Len(log) : log[k].ev = "draw" /\ log[k].id = i}

\* the self size a widget reports after the call, if it reports one
SelfSizeOf(i) == get_self_size(W, i)

\* C1: during Canvas.get_img every call of Widget.draw is entered with the
\* painter's active region size equal to the widget's _get_self_size(), so the
\* size assertion at the top of draw never fails.
C1_DrawRegionIsSelfSize ==
    /\ result.err # DrawSizeError
    /\ \A k \in 1..Len(log) :
          (log[k].ev = "draw" /\ SelfSizeOf(log[k].id).err = "")
              => log[k].size = SelfSizeOf(log[k].id).val

\* an image was produced in which a container drew two children of different,
\* non-empty sizes
C1_Witness ==
    /\ result.kind = "image"
    /\ \E j, k \in 1..Len(log) :
          /\ log[j].ev = "draw" /\ log[k].ev = "draw"
          /\ log[j].id # 1 /\ log[k].id # 1
          /\ W[log[j].id].parent = W[log[k].id].parent
          /\ log[j].size # log[k].size
          /\ log[j].size[1] > 0 /\ log[k].size[1] > 0

Measured(i) == W[i].calc_w # None /\ W[i].calc_h # None

\* C2: the self size of a widget is, on each axis, L + 2*padding + 2*margin,
\* where L is the content size when no explicit extent is set and
\* (explicit extent - 2*padding) when one is set.
C2_SelfSizeFormula ==
    \A i \in 1..Len(W) :
        Measured(i) =>
            LET c == get_content_size(W, i).val
                Lw == IF W[i].w = None THEN c[1] ELSE W[i].w - 2 * W[i].hpadding
                Lh == IF W[i].h = None THEN c[2] ELSE W[i].h - 2 * W[i].vpadding
            IN /\ W[i].calc_w = Lw + 2 * W[i].hpadding + 2 * W[i].hmargin
               /\ W[i].calc_h = Lh + 2 * W[i].vpadding + 2 * W[i].vmargin
               /\ SelfSizeOf(i).val = <<W[i].calc_w, W[i].calc_h>>
               /\ (W[i].w # None => W[i].calc_w = W[i].w + 2 * W[i].hmargin)
               /\ (W[i].h # None => W[i].calc_h = W[i].h + 2 * W[i].vmargin)

\* a widget with an explicit width, an automatic height and a padding was measured
C2_Witness ==
    \E i \in 1..Len(W) :
        /\ Measured(i)
        /\ W[i].w # None /\ W[i].h = None
        /\ W[i].hpadding > 0 /\ W[i].vpadding > 0
        /\ W[i].calc_h > 2 * W[i].vpadding

\* the content of widget i, measured, exceeds its explicit bound on some axis
Exceeds(i) ==
    LET c == get_content_size(W, i)
        lim == content_limit(W[i], c.val)
    IN c.err = "" /\ (c.val[1] > lim[1] \/ c.val[2] > lim[2])

\* C3: whenever a widget's content size exceeds its explicit bound on either
\* axis, _get_self_size raises a sizing error and leaves the widget's cached
\* size unset, and the enclosing Canvas.get_img call ends with an error and
\* returns no image; a sizing error that leaves get_img comes from such a widget.
C3_SizingErrorPropagates ==
    Called =>
        /\ \A i \in 1..Len(W) :
              Exceeds(i) =>
                  /\ SelfSizeOf(i).err = SizingError
                  /\ W[i].calc_w = None /\ W[i].calc_h = None
                  /\ result.kind = "error"
                  /\ result.size = <<>>
        /\ result.err = SizingError =>
              /\ result.size = <<>>
              /\ \E i \in 1..Len(W) : Exceeds(i)

\* get_img raised the sizing error of a widget nested below the canvas
C3_Witness ==
    /\ result.err = SizingError
    /\ \E i \in 2..Len(W) : Exceeds(i) /\ W[i].parent # 0
    /\ ~Exceeds(1)

\* C4: Canvas.get_img fails with the size error, before the image is
\* allocated and before any widget is drawn, whenever the canvas self size
\* has width * height >= 4096 * 4096; for a smaller canvas it allocates an
\* image of exactly the canvas self size.
C4_CanvasPixelLimit ==
    (Called /\ SelfSizeOf(1).err = "") =>
        LET sz == SelfSizeOf(1).val
        IN IF sz[1] * sz[2] >= 4096 * 4096
           THEN /\ result.err = CanvasTooLarge
                /\ result.alloc = <<>>
                /\ log = <<>>
           ELSE /\ result.alloc = sz
                /\ painter.img_size = sz
                /\ result.err # CanvasTooLarge
                /\ result.kind = "image" => result.size = sz

\* get_img refused a canvas of exactly 4096 x 4096 pixels
C4_Witness ==
    /\ result.err = CanvasTooLarge
    /\ SelfSizeOf(1).val = <<4096, 4096>>

\* the assertion failures for a dimension that a sizing mode requires
MissingDimErrors ==
    {"AssertionError: Expand mode requires width",
     "AssertionError: Expand mode requires height",
     "AssertionError: Expand mode requires width and height",
     "AssertionError: Fit mode requires width or height",
     "AssertionError: Fill mode requires width or height"}

\* widget i is in a sizing mode whose required dimension is missing
MissingDim(i) ==
    \/ /\ W[i].kind = "HSplit" /\ W[i].item_size_mode = "expand"
       /\ W[i].w = None /\ W[i].items # <<>>
    \/ /\ W[i].kind = "VSplit" /\ W[i].item_size_mode = "expand"
       /\ W[i].h = None /\ W[i].items # <<>>
    \/ /\ W[i].kind = "Grid" /\ W[i].item_size_mode = "expand"
       /\ (W[i].w = None \/ W[i].h = None)
       /\ Truthy(W[i].row_count) # Truthy(W[i].col_count)
    \/ /\ W[i].kind = "ImageBox" /\ W[i].image_size_mode \in {"fit", "fill"}
       /\ W[i].w = None /\ W[i].h = None

\* C5 (as stated): every configuration error, a missing required dimension
\* for 'fit' / 'fill' / 'expand' included, is raised by the constructor or
\* setter call that introduces it, never later during measurement or drawing.
C5_ConfigErrorsAreEager ==
    result.err \notin MissingDimErrors

\* the attributes a constructor or setter validates hold valid values
ValidConfig(i) ==
    /\ W[i].content_halign \in {"l", "c", "r"} /\ W[i].content_valign \in {"t", "c", "b"}
    /\ W[i].offset_xanchor \in {"l", "c", "r"} /\ W[i].offset_yanchor \in {"t", "c", "b"}
    /\ W[i].item_halign \in {"l", "c", "r"} /\ W[i].item_valign \in {"t", "c", "b"}
    /\ W[i].item_size_mode \in {"expand", "fixed"}
    /\ W[i].image_size_mode \in {"fit", "fill", "original"}
    /\ W[i].overflow \in {"shrink", "clip"}
    /\ ~(Truthy(W[i].row_count) /\ Truthy(W[i].col_count))

\* C5 (amended): an invalid alignment token, an invalid mode and row_count
\* with col_count both set are raised by the constructor or setter call that
\* introduces them (a setter that raises leaves the widget as it was, and no
\* call is accepted after one that raised); a missing required
\* dimension for ImageBox 'fit' / 'fill' or HSplit / VSplit / Grid 'expand' is
\* accepted at configuration time and raised later, as an assertion failure,
\* when the widget's size is measured inside Canvas.get_img.
C5_MissingDimensionIsLate ==
    /\ \A i \in 1..Len(W) :
          ~ValidConfig(i) => (i = Len(W) /\ cfgErr = RowColError /\ ~Called)
    /\ cfgErr # "" =>
          /\ ~Called
          /\ cfgErr \in {InvalidAlign, "ValueError: Invalid anchor",
                         RowColError, OverflowError,
                         "AssertionError: item_size_mode",
                         "AssertionError: image_size_mode"}
    /\ cfgErr \notin MissingDimErrors
    /\ Called =>
          /\ (\E i \in 1..Len(W) : MissingDim(i)) => result.kind = "error"
          /\ \A i \in 1..Len(W) :
                (MissingDim(i) /\ ~Measured(i)) => SelfSizeOf(i).err # ""
          /\ \A i \in 1..Len(W) : MissingDim(i) => ~Measured(i)
          /\ result.err \in MissingDimErrors => \E i \in 1..Len(W) : MissingDim(i)

\* a tree holding a widget with a missing dimension was built without any
\* error, and get_img then raised the assertion for it
C5_Witness ==
    /\ cfgErr = ""
    /\ result.err \in MissingDimErrors
    /\ \E i \in 1..Len(W) : MissingDim(i) /\ W[i].kind = "ImageBox"

\* C7: in one successful Canvas.get_img call, draw is invoked exactly once on
\* every widget held in the tree, whatever ratios list, sizing mode or
\* row / column count its container has.
C7_EveryItemDrawnOnce ==
    result.kind = "image" =>
        \A i \in 1..Len(W) : Cardinality(DrawEvents(i)) = 1

(***************************************************************************)
(* Claims about programmatic composition (checked under ComposeSpec).      *)
(***************************************************************************)
\* the containers whose items list holds widget x
Holders(x) ==
    {c \in 1..Len(W) : \E k \in 1..Len(W[c].items) : W[c].items[k] = x}

\* C6: after any sequence of container constructions with an items list,
\* add_item calls and set_items calls, every widget is in the items list of
\* at most one container and its parent link is exactly that container (None
\* when it is in no container).
C6_SingleParent ==
    \A x \in 1..Len(W) :
        /\ Cardinality(Holders(x)) <= 1
        /\ Holders(x) = {} => W[x].parent = 0
        /\ \A c \in Holders(x) : W[x].parent = c

(***************************************************************************)
(* Claims about layouts (checked under LayoutSpec).                        *)
(***************************************************************************)
\* the log events of one kind about widget i
EventsOf(ev, i) == {k \in 1..Len(log) : log[k].ev = ev /\ log[k].id = i}

\* ceil(a / b) for a >= 0, b > 0: the least q with q * b >= a
CeilDiv(a, b) == CHOOSE q \in 0..a : q * b >= a /\ (q = 0 \/ (q - 1) * b < a)

\* the rows and columns the claim gives a Grid: the count that is set, and
\* the ceiling of the item count over it for the other
GridRows(g) ==
    IF Truthy(W[g].col_count) THEN CeilDiv(Len(W[g].items), W[g].col_count)
    ELSE W[g].row_count
GridCols(g) ==
    IF Truthy(W[g].col_count) THEN W[g].col_count
    ELSE CeilDiv(Len(W[g].items), W[g].row_count)

\* the cell (row, column) the claim gives the item at 0-based index idx
GridCell(g, idx) ==
    IF W[g].vertical THEN <<idx % GridRows(g), idx \div GridRows(g)>>
    ELSE <<idx \div GridCols(g), idx % GridCols(g)>>

\* C11: a Grid with col_count = c and n items has ceil(n / c) rows (with
\* row_count = r, ceil(n / r) columns); the item at index i is placed in the
\* cell at row i // c, column i % c (row i % r, column i // r when vertical),
\* and the cell's origin, measured from the origin of the Grid's content, is
\* (column * (cell_w + hsep), row * (cell_h + vsep)).  Every item of a Grid
\* that was drawn to the end has its cell.
C11_GridPlacement ==
    \A g \in 1..Len(W) :
        W[g].kind = "Grid" =>
            \A kc \in EventsOf("content", g), idx \in 0..(Len(W[g].items) - 1) :
                LET item == W[g].items[idx + 1]
                    cell == GridCell(g, idx)
                IN /\ result.kind = "image" => EventsOf("slot", item) # {}
                   /\ \A ks \in EventsOf("slot", item) :
                         log[ks].offset =
                            <<log[kc].offset[1]
                                 + cell[2] * (log[ks].size[1] + W[g].hsep),
                              log[kc].offset[2]
                                 + cell[1] * (log[ks].size[2] + W[g].vsep)>>

\* a vertical Grid of three items in two rows was drawn: its third item is
\* in row 0, column 1
C11_Witness ==
    /\ result.kind = "image"
    /\ \E g \in 1..Len(W) :
          /\ W[g].kind = "Grid"
          /\ W[g].vertical
          /\ Len(W[g].items) = 3
          /\ W[g].col_count = 2
          /\ GridCell(g, 2) = <<0, 1>>
          /\ EventsOf("slot", W[g].items[3]) # {}

\* the children of container f are all measured
ItemsMeasured(f) == \A k \in 1..Len(W[f].items) : Measured(W[f].items[k])

\* the extents on one axis (1: width, 2: height) of the self sizes that the
\* children of f have reported, and 0
ItemExtents(f, axis) ==
    {0} \cup {IF axis = 1 THEN W[W[f].items[k]].calc_w ELSE W[W[f].items[k]].calc_h :
                 k \in 1..Len(W[f].items)}

\* C12: the content size of a Frame is, on each axis, the maximum of its
\* children's self sizes, and (0, 0) with no children; it is never their sum:
\* a Frame of two Spacer(10, 10) has content size (10, 10) whatever its
\* content alignment.
C12_FrameContentIsMax ==
    \A f \in 1..Len(W) :
        (Called /\ W[f].kind \in {"Frame", "Canvas"} /\ ItemsMeasured(f)) =>
            LET c == get_content_size(W, f)
            IN /\ c.err = ""
               /\ \A axis \in 1..2 :
                     /\ c.val[axis] \in ItemExtents(f, axis)
                     /\ \A e \in ItemExtents(f, axis) : e <= c.val[axis]
               /\ W[f].items = <<>> => c.val = <<0, 0>>

\* a centered Frame of two Spacer(10, 10) was measured: its content size is
\* (10, 10)
C12_Witness ==
    /\ Called
    /\ \E f \in 1..Len(W) :
          /\ W[f].kind = "Frame"
          /\ W[f].content_halign = "c"
          /\ Len(W[f].items) = 2
          /\ \A k \in 1..2 : /\ W[W[f].items[k]].kind = "Spacer"
                             /\ W[W[f].items[k]].calc_w = 10
                             /\ W[W[f].items[k]].calc_h = 10
          /\ get_content_size(W, f).val = <<10, 10>>

\* where the region of child x of Frame f lies, measured from the origin of
\* the Frame's content, at the draw event kd of the child
PlaceInFrame(f, kd) ==
    LET kc == CHOOSE k \in EventsOf("content", f) : TRUE
    IN <<log[kd].offset[1] - log[kc].offset[1],
         log[kd].offset[2] - log[kc].offset[2]>>

\* where the alignment letters (ha, va) put a part of size `inner` in a box
\* of size `outer`
AlignedAt(ha, va, outer, inner) ==
    <<AlignPos(ha, outer[1], inner[1]), AlignPos(va, outer[2], inner[2])>>

\* the Frames (and Canvases) whose content was drawn, with measured children
DrawnFrames ==
    {f \in 1..Len(W) : /\ W[f].kind \in {"Frame", "Canvas"}
                       /\ EventsOf("content", f) # {}
                       /\ ItemsMeasured(f)}

\* C13 as stated: a Frame places each child in its content box according to
\* that child's own alignment setting, so that two children with different
\* alignments land at independently determined positions.
C13_FramePlacesByChildAlign ==
    \A f \in DrawnFrames :
        \A k \in 1..Len(W[f].items) :
            \A kd \in DrawEvents(W[f].items[k]) :
                PlaceInFrame(f, kd) =
                    AlignedAt(W[W[f].items[k]].content_halign,
                              W[W[f].items[k]].content_valign,
                              get_content_size(W, f).val, log[kd].size)

\* C13, amended: a Frame places each child in its content box according to
\* the Frame's own content alignment and the child's self size; the child's
\* own alignment setting plays no part, so two children of one self size
\* land at the same position whatever their alignments.
C13_FramePlacesByFrameAlign ==
    \A f \in DrawnFrames :
        \A k \in 1..Len(W[f].items) :
            \A kd \in DrawEvents(W[f].items[k]) :
                /\ PlaceInFrame(f, kd) =
                      AlignedAt(W[f].content_halign, W[f].content_valign,
                                get_content_size(W, f).val, log[kd].size)
                /\ \A k2 \in 1..Len(W[f].items) :
                      \A kd2 \in DrawEvents(W[f].items[k2]) :
                          log[kd2].size = log[kd].size =>
                              log[kd2].offset = log[kd].offset

\* a Frame drew two children of different alignments and different sizes
C13_Witness ==
    /\ result.kind = "image"
    /\ \E f \in DrawnFrames :
          /\ W[f].kind = "Frame"
          /\ \E k1, k2 \in 1..Len(W[f].items) :
                /\ W[W[f].items[k1]].content_halign # W[W[f].items[k2]].content_halign
                /\ W[W[f].items[k1]].calc_w # W[W[f].items[k2]].calc_w
                /\ DrawEvents(W[f].items[k1]) # {}
                /\ DrawEvents(W[f].items[k2]) # {}

\* the splits in 'fixed' mode with ratios [1, 1] and two children of equal
\* self size, all measured
EvenSplits ==
    {s \in 1..Len(W) : /\ W[s].kind \in SplitKinds
                       /\ W[s].item_size_mode = "fixed"
                       /\ W[s].ratios = <<1, 1>>
                       /\ Len(W[s].items) = 2
                       /\ ItemsMeasured(s)
                       /\ W[W[s].items[1]].calc_w = W[W[s].items[2]].calc_w
                       /\ W[W[s].items[1]].calc_h = W[W[s].items[2]].calc_h}

\* C14: in an HSplit (width) or VSplit (height) in 'fixed' mode with ratios
\* [1, 1] and two children of equal self size, the slot of each child is, on
\* the main axis, within 1 px of (content extent - sep) / 2.
C14_EvenSplitHalves ==
    \A s \in EvenSplits :
        LET axis == Axis(W[s].kind)
            content == get_content_size(W, s)
        IN /\ content.err = ""
           /\ result.kind = "image" =>
                 \A k \in 1..2 : EventsOf("slot", W[s].items[k]) # {}
           /\ \A k \in 1..2 :
                 \A ks \in EventsOf("slot", W[s].items[k]) :
                    LET twice == 2 * log[ks].size[axis]
                        rest == content.val[axis] - W[s].sep
                    IN twice - rest <= 2 /\ rest - twice <= 2

\* the slots of an even split of two 40 x 20 Spacers were drawn
C14_Witness ==
    /\ result.kind = "image"
    /\ \E s \in EvenSplits :
          /\ W[W[s].items[1]].calc_w = 40
          /\ \A k \in 1..2 : EventsOf("slot", W[s].items[k]) # {}

\* the canvases with an explicit size (w, h)
SizedCanvases ==
    {c \in 1..Len(W) : W[c].kind = "Canvas" /\ W[c].w # None /\ W[c].h # None}

\* the canvas is Canvas(100, 50) with centered content, holding a fixed-mode
\* HSplit with sep = 10 of Spacer(40, 20) and Spacer(40, 20)
SplitExample(c) ==
    /\ W[c].w = 100 /\ W[c].h = 50
    /\ W[c].content_halign = "c" /\ W[c].content_valign = "c"
    /\ Len(W[c].items) = 1
    /\ LET s == W[c].items[1]
       IN /\ W[s].kind = "HSplit"
          /\ W[s].item_size_mode = "fixed"
          /\ W[s].sep = 10
          /\ W[s].w = None /\ W[s].h = None
          /\ W[s].hpadding = 0
          /\ Len(W[s].items) = 2
          /\ \A k \in 1..2 : /\ W[W[s].items[k]].kind = "Spacer"
                             /\ W[W[s].items[k]].w = 40
                             /\ W[W[s].items[k]].h = 20

\* C15: get_img() without scale on a Canvas with explicit size (w, h) returns
\* an image of exactly (w, h); with centered content alignment a single child
\* of self size (cw, ch) is drawn at absolute x = (w - cw) // 2 (and
\* y = (h - ch) // 2).  Canvas(100, 50) holding a fixed-mode HSplit with
\* sep = 10 of two Spacer(40, 20) yields a (100, 50) image in which the split
\* has content width 90 and starts at x = 5, leaving 5 px on each side.
C15_CanvasSizeAndCentering ==
    \A c \in SizedCanvases :
        result.kind = "image" =>
            /\ result.size = <<W[c].w, W[c].h>>
            /\ result.alloc = <<W[c].w, W[c].h>>
            /\ (Len(W[c].items) = 1 /\ W[c].content_halign = "c"
                                    /\ W[c].content_valign = "c") =>
                  /\ DrawEvents(W[c].items[1]) # {}
                  /\ \A kd \in DrawEvents(W[c].items[1]) :
                        /\ log[kd].size[1] <= W[c].w
                        /\ log[kd].offset =
                              <<(W[c].w - log[kd].size[1]) \div 2,
                                (W[c].h - log[kd].size[2]) \div 2>>
            /\ SplitExample(c) =>
                  /\ result.size = <<100, 50>>
                  /\ get_content_size(W, W[c].items[1]).val[1] = 90
                  /\ \A kd \in DrawEvents(W[c].items[1]) :
                        /\ log[kd].offset[1] = 5
                        /\ log[kd].size[1] = 90
                        /\ 100 - (log[kd].offset[1] + log[kd].size[1]) = 5

\* the example canvas was rendered
C15_Witness ==
    /\ result.kind = "image"
    /\ \E c \in SizedCanvases :
          /\ SplitExample(c)
          /\ DrawEvents(W[c].items[1]) # {}

\* the splits in 'expand' mode with an explicit extent on the main axis and
\* with items, all of them measured
ExpandSplits ==
    {s \in 1..Len(W) : /\ W[s].kind \in SplitKinds
                       /\ W[s].item_size_mode = "expand"
                       /\ W[s].items # <<>>
                       /\ ItemsMeasured(s)
                       /\ (IF W[s].kind = "HSplit" THEN W[s].w ELSE W[s].h) # None}

\* the ratios of split s: the list given, or the main extents of its items
RatiosOf(s) ==
    IF W[s].ratios # <<>> THEN W[s].ratios
    ELSE [k \in 1..Len(W[s].items) |->
             IF W[s].kind = "HSplit" THEN W[W[s].items[k]].calc_w
             ELSE W[W[s].items[k]].calc_h]

\* explicit extent - 2 * padding on the main axis of split s
MainLimit(s) ==
    IF W[s].kind = "HSplit" THEN W[s].w - 2 * W[s].hpadding
    ELSE W[s].h - 2 * W[s].vpadding

\* explicit extent - sep * (n - 1) - 2 * padding, n the number of ratios
MainAvailable(s) == MainLimit(s) - W[s].sep * (Len(RatiosOf(s)) - 1)

\* C16 as stated: in 'expand' mode item i gets the slot floor(unit * ratio_i),
\* unit = (explicit extent - sep * (n - 1) - 2 * padding) / sum(ratios), and
\* the slots plus the separators never exceed explicit extent - 2 * padding,
\* so that measuring the split raises no sizing error on its main axis.
C16_ExpandNeverExceeds ==
    \A s \in ExpandSplits :
        Called /\ SumSeq(RatiosOf(s)) > 0 =>
            LET axis == Axis(W[s].kind)
                m == Split_get_item_sizes(W, s, axis)
                c == get_content_size(W, s)
            IN /\ m.err = "" /\ c.err = ""
               /\ \A k \in 1..Len(m.val) :
                     m.val[k][axis] =
                        (RatiosOf(s)[k] * MainAvailable(s)) \div SumSeq(RatiosOf(s))
               /\ c.val[axis] <= MainLimit(s)

\* C16, amended: in 'expand' mode item i gets the slot int(unit * ratio_i),
\* truncated toward zero, which is the floor of the exact product or one
\* below it when unit >= 0; the remainder is not redistributed.  When the
\* explicit extent covers the separators and the padding (unit >= 0) the
\* slots plus the separators do not exceed explicit extent - 2 * padding and
\* measuring the split raises no sizing error on its main axis.
C16_ExpandFitsWhenRoomy ==
    \A s \in ExpandSplits :
        (Called /\ SumSeq(RatiosOf(s)) > 0 /\ MainAvailable(s) >= 0) =>
            LET axis == Axis(W[s].kind)
                m == Split_get_item_sizes(W, s, axis)
                c == get_content_size(W, s)
            IN /\ m.err = "" /\ c.err = ""
               /\ \A k \in 1..Len(m.val) :
                     LET exact == (RatiosOf(s)[k] * MainAvailable(s))
                                     \div SumSeq(RatiosOf(s))
                     IN exact - 1 <= m.val[k][axis] /\ m.val[k][axis] <= exact
               /\ c.val[axis] = SumSeq([k \in 1..Len(m.val) |-> m.val[k][axis]])
                                   + W[s].sep * (Len(m.val) - 1)
               /\ c.val[axis] <= MainLimit(s)
               /\ c.val[axis] <= content_limit(W[s], c.val)[axis]

\* a padded expand-mode split was rendered whose slots leave a remainder
C16_Witness ==
    /\ result.kind = "image"
    /\ \E s \in ExpandSplits :
          /\ W[s].hpadding # 0
          /\ SumSeq(RatiosOf(s)) > 0
          /\ MainAvailable(s) >= 0
          /\ get_content_size(W, s).val[Axis(W[s].kind)] < MainLimit(s)
          /\ \A k \in 1..Len(W[s].items) : EventsOf("slot", W[s].items[k]) # {}


\* the image boxes of the given mode that get_img has measured
ImageBoxes(mode) ==
    {i \in 1..Len(W) : /\ W[i].kind = "ImageBox"
                       /\ W[i].image_size_mode = mode
                       /\ Called}

\* C19: an ImageBox in 'fit' mode with only a width bound set (padding 0)
\* reports content width equal to the bound and content height equal to the
\* image height scaled by bound / image_width, within 1 px; its measurement
\* never raises a sizing error.
C19_FitWidthIsBound ==
    \A i \in ImageBoxes("fit") :
        (W[i].w # None /\ W[i].h = None /\ W[i].hpadding = 0) =>
            LET c == get_content_size(W, i)
                diff == c.val[2] * W[i].image[1] - W[i].image[2] * W[i].w
            IN /\ c.err = ""
               /\ c.val[1] = W[i].w
               /\ Abs(diff) <= W[i].image[1]
               /\ get_self_size(W, i).err = ""

\* C20: an ImageBox in 'fill' mode with exactly one of width / height set is
\* measured and drawn without error, its image scaled uniformly so that it
\* covers the given bound; with both set its content size is exactly
\* (w - 2 * hpadding, h - 2 * vpadding).
C20_FillOneBound ==
    \A i \in ImageBoxes("fill") :
        LET c == get_content_size(W, i)
        IN IF W[i].w # None /\ W[i].h # None
           THEN /\ c.err = ""
                /\ c.val = <<W[i].w - 2 * W[i].hpadding, W[i].h - 2 * W[i].vpadding>>
           ELSE /\ c.err = ""
                /\ get_self_size(W, i).err = ""
                /\ result.kind = "image"
                /\ W[i].w # None => c.val[1] >= W[i].w - 2 * W[i].hpadding
                /\ W[i].h # None => c.val[2] >= W[i].h - 2 * W[i].vpadding


(***************************************************************************)
(* Claims about the lines of a TextBox (checked under TextSpec).           *)
(***************************************************************************)
\* _get_lines has been called on the text box
LinesAsked == result.kind \in {"lines", "hang"}

\* the width left for the text: w - 2 * hpadding
TextAvailable == W[1].w - 2 * W[1].hpadding

\* every glyph of the text of the box, and the ellipsis, fits the width left
Wrappable ==
    /\ TextWidth(Ellipsis) <= TextAvailable
    /\ \A k \in 1..Len(W[1].text) : GlyphWidth(W[1].text[k]) <= TextAvailable

\* the length of the longest prefix of line that is not wider than avail
LongestFit(line, avail) ==
    CHOOSE n \in 0..Len(line) :
        /\ TextWidth(SubSeq(line, 1, n)) <= avail
        /\ n < Len(line) => TextWidth(SubSeq(line, 1, n + 1)) > avail

RECURSIVE WrapCount(_, _)
\* the number of lines a line without line breaks takes when broken greedily
\* at the width avail
WrapCount(line, avail) ==
    IF TextWidth(line) <= avail THEN 1
    ELSE 1 + WrapCount(SliceFrom(line, LongestFit(line, avail)), avail)

\* the number of lines the text needs at the width avail
NeededLines(text, avail) ==
    SumSeq([k \in 1..Len(split(text, <<>>)) |-> WrapCount(split(text, <<>>)[k], avail)])

EndsWithEllipsis(line) ==
    Len(line) >= Len(Ellipsis) /\ SliceFrom(line, Len(line) - Len(Ellipsis)) = Ellipsis

\* C17: a TextBox with an explicit width, wrap = true, line_count = k and a
\* text that needs more than k lines at that width produces exactly k lines,
\* and with overflow = 'shrink' the k-th line ends with the suffix '...'.
C17_WrapKeepsKLinesWithEllipsis ==
    (/\ LinesAsked
     /\ W[1].w # None
     /\ W[1].wrap
     /\ Wrappable
     /\ NeededLines(W[1].text, TextAvailable) > W[1].line_count)
        => /\ result.kind = "lines"
           /\ Len(result.size) = W[1].line_count
           /\ W[1].overflow = "shrink"
                 => EndsWithEllipsis(result.size[W[1].line_count])

\* C18: for a TextBox with an explicit width and wrap = false every line
\* returned by _get_lines, the appended suffix '...' included, is at most
\* w - 2 * hpadding wide, for every text and every box width (stated here
\* for the boxes wider than their padding).
C18_NoWrapLinesFitBox ==
    (LinesAsked /\ W[1].w # None /\ ~W[1].wrap /\ TextAvailable > 0)
        => /\ result.kind = "lines"
           /\ \A k \in 1..Len(result.size) :
                 TextWidth(result.size[k]) <= TextAvailable


(***************************************************************************)
(* Claims about building in several execution contexts (checked under      *)
(* ConcurrentSpec).                                                        *)
(***************************************************************************)
\* the successful constructor calls
Constructions ==
    {k \in 1..Len(calls) : calls[k].op = "construct" /\ calls[k].err = ""}

\* C21: two widget trees built concurrently in different tasks share no
\* builder state: a widget constructed in one task is never registered into a
\* container constructed and opened by the other task, under every
\* interleaving of their __enter__ / __exit__ and constructor calls.
C21_TasksBuildApart ==
    \A k \in Constructions :
        (calls[k].ctx # 0 /\ calls[k].into # 0) =>
            \A t \in DOMAIN ctxvar \ {0, calls[k].ctx} : calls[k].into \notin BuiltBy(t)


RECURSIVE OpenAfter(_)
\* the containers whose `with` block is open after the first n calls, the
\* innermost last: each __enter__ opens one, each __exit__ that returns
\* closes the innermost
OpenAfter(n) ==
    IF n = 0 THEN <<>>
    ELSE IF calls[n].op = "enter" /\ calls[n].err = ""
    THEN Append(OpenAfter(n - 1), calls[n].id)
    ELSE IF calls[n].op = "exit" /\ calls[n].err = ""
    THEN SubSeq(OpenAfter(n - 1), 1, Len(OpenAfter(n - 1)) - 1)
    ELSE OpenAfter(n - 1)

\* 0 for the empty list, else its last element
LastOrNone(s) == IF s = <<>> THEN 0 ELSE s[Len(s)]

\* the number of times x is in the items of container c
TimesIn(c, x) == Cardinality({j \in 1..Len(W[c].items) : W[c].items[j] = x})

\* C22: in one execution context, a widget constructed while containers are
\* open is appended once to the items of the innermost open container and has
\* it as parent; constructed with no container open it has no parent.
\* __exit__ returns only on the innermost open container (on another one its
\* assertion fails and nothing is closed), and once the outermost block is
\* closed no container is current.
C22_RegistersIntoInnermost ==
    DOMAIN ctxvar = {0} =>
        /\ \A k \in 1..Len(calls) :
              LET innermost == LastOrNone(OpenAfter(k - 1))
              IN /\ calls[k].op = "construct" =>
                       /\ calls[k].err = ""
                       /\ calls[k].into = innermost
                       /\ W[calls[k].id].parent = innermost
                       /\ \A c \in 1..Len(W) :
                             TimesIn(c, calls[k].id) = IF c = innermost THEN 1 ELSE 0
                 /\ calls[k].op = "exit" =>
                       /\ calls[k].err = "" <=> calls[k].id = innermost
                       /\ calls[k].err \in {"", "AssertionError"}
                 /\ calls[k].op = "enter" => calls[k].err = ""
        /\ Ctx_get_current_widget(0) =
              [val |-> LastOrNone(OpenAfter(Len(calls))), err |-> ""]
        /\ OpenAfter(Len(calls)) = <<>> <=> ctxvar[0] = 0

\* inside two nested `with` blocks a widget was constructed into the inner
\* container, and closing the outer container first failed
C22_Witness ==
    /\ DOMAIN ctxvar = {0}
    /\ \E k \in Constructions :
          /\ Len(OpenAfter(k - 1)) >= 1
          /\ W[calls[k].id].parent = LastOrNone(OpenAfter(k - 1))
    /\ \E k \in 1..Len(calls) :
          /\ calls[k].op = "exit" /\ calls[k].err = "AssertionError"
          /\ Len(OpenAfter(k)) = 2
          /\ OpenAfter(k)[1] = calls[k].id


(***************************************************************************)
(* Claims about the course of Canvas.get_img (checked under Spec).         *)
(***************************************************************************)
\* the event at which the draw call entered at event k returns: the first
\* "end" of the same widget at the same stack depth (0 if it did not return)
EndOf(k) ==
    LET ends == {e \in k + 1..Len(log) : /\ log[e].ev = "end"
                                         /\ log[e].id = log[k].id
                                         /\ log[e].depth = log[k].depth}
    IN IF ends = {} THEN 0 ELSE CHOOSE e \in ends : \A f \in ends : e <= f

\* the events of the widget itself inside the draw call entered at event k
OwnEvents(k, ev) ==
    {j \in k + 1..EndOf(k) : /\ log[j].ev = ev /\ log[j].id = log[k].id
                             /\ \A d \in k + 1..j - 1 :
                                   log[d].ev = "draw" => EndOf(d) \in d + 1..j - 1}

\* C23: Widget.draw is balanced on the region stack.  It pushes four regions
\* (anchor move, margin shrink, padding shrink, content move) and pops four:
\* when draw returns, the active region and the stack depth are those at its
\* entry; while it runs the depth never drops below the depth at its entry, so
\* restore_region never meets an empty stack; the stack is empty when
\* get_img returns.
C23_DrawIsBalanced ==
    result.kind = "image" =>
        /\ painter.region_stack = <<>>
        /\ painter.err = ""
        /\ \A k \in 1..Len(log) :
              log[k].ev = "draw" =>
                 /\ EndOf(k) # 0
                 /\ log[EndOf(k)].offset = log[k].offset
                 /\ log[EndOf(k)].size = log[k].size
                 /\ \A j \in k..EndOf(k) : log[j].depth >= log[k].depth
                 /\ \A j \in OwnEvents(k, "self") : log[j].depth = log[k].depth + 2
                 /\ \A j \in OwnEvents(k, "content") : log[j].depth = log[k].depth + 4
                 /\ OwnEvents(k, "content") # {}
                 /\ \A j \in k + 1..EndOf(k) - 1 :
                       log[j].ev = "draw" => log[j].depth > log[k].depth + 4

\* a canvas holding an HSplit or VSplit with two drawn items was rendered
C23_Witness ==
    /\ result.kind = "image"
    /\ \E s \in 1..Len(W) :
          /\ W[s].kind \in SplitKinds
          /\ \E a, b \in 1..Len(log) :
                /\ a < b
                /\ log[a].ev = "end" /\ log[b].ev = "draw"
                /\ log[a].id # log[b].id
                /\ W[log[a].id].parent = s /\ W[log[b].id].parent = s
                /\ log[a].depth = log[b].depth
                /\ log[a].depth >= 10


Painted(i) == (IF W[i].bg THEN <<"bg">> ELSE <<>>) \o W[i].draw_funcs

\* the event at which widget x is handed to draw inside the draw call entered
\* at event k (0 if it is not)
DrawOf(k, x) ==
    LET ds == {j \in k + 1..EndOf(k) : log[j].ev = "draw" /\ log[j].id = x}
    IN IF Cardinality(ds) = 1 THEN CHOOSE j \in ds : TRUE ELSE 0

\* what precedes the draw of item x of container c: in HSplit / VSplit / Grid
\* the move to the slot, then the per-item background when the container has
\* one and x has not set omit_parent_bg
BeforeItem(c, x) ==
    IF W[c].kind \in {"Frame", "Canvas"} THEN <<>>
    ELSE IF W[c].item_bg /\ ~W[x].omit_parent_bg THEN <<"slot", "item_bg">>
    ELSE <<"slot">>

\* C26: drawing is a pre-order traversal in insertion order.  Every widget
\* paints its background and then its draw hooks, in the order of their
\* registration, before its content; a container draws its items in the
\* order of its items list, each wholly before the next (so a later item of a
\* Frame is painted over an earlier one); HSplit, VSplit and Grid paint the
\* per-item background in the slot immediately before drawing the item, and
\* only when the item has not set omit_parent_bg.
C26_PaintsInPreOrder ==
    result.kind = "image" =>
        \A k \in 1..Len(log) : log[k].ev = "draw" =>
            LET i == log[k].id
                own == Painted(i)
                items == W[i].items
            IN /\ EndOf(k) > k
               /\ log[k + 1].ev = "self" /\ log[k + 1].id = i
               /\ \A n \in 1..Len(own) :
                     /\ log[k + 1 + n].ev = own[n]
                     /\ log[k + 1 + n].id = i
                     /\ log[k + 1 + n].offset = log[k + 1].offset
                     /\ log[k + 1 + n].size = log[k + 1].size
               /\ log[k + 2 + Len(own)].ev = "content"
               /\ log[k + 2 + Len(own)].id = i
               /\ \A n \in 1..Len(items) :
                     LET d == DrawOf(k, items[n])
                         pre == BeforeItem(i, items[n])
                     IN /\ d > k + 2 + Len(own)
                        /\ \A m \in 1..Len(pre) :
                              /\ log[d - Len(pre) - 1 + m].ev = pre[m]
                              /\ log[d - Len(pre) - 1 + m].id = items[n]
                              /\ log[d - Len(pre) - 1 + m].size = log[d - Len(pre)].size
                              /\ log[d - Len(pre) - 1 + m].offset = log[d - Len(pre)].offset
                        /\ IF n = 1 THEN d - Len(pre) - 1 = k + 2 + Len(own)
                           ELSE d - Len(pre) - 1 = EndOf(DrawOf(k, items[n - 1]))
               /\ IF items = <<>> THEN EndOf(k) = k + 3 + Len(own)
                  ELSE EndOf(k) = EndOf(DrawOf(k, items[Len(items)])) + 1

\* a rendered HSplit / VSplit / Grid with a per-item background over an item
\* that takes it and an item that has set omit_parent_bg, one of its widgets
\* having a background and two draw hooks
C26_Witness ==
    /\ result.kind = "image"
    /\ \E c, x, y, z \in 1..Len(W) :
          /\ W[c].kind \in {"HSplit", "VSplit", "Grid"}
          /\ W[c].item_bg
          /\ W[x].parent = c /\ W[y].parent = c /\ x < y
          /\ W[x].omit_parent_bg # W[y].omit_parent_bg
          /\ W[z].bg /\ Len(W[z].draw_funcs) = 2
          /\ \E k \in 1..Len(log) : log[k].ev = "item_bg"
          /\ \E k \in 1..Len(log) : log[k].ev = "bg" /\ log[k].id = z


(***************************************************************************)
(* Claims about clipping a line (checked under ClipSpec).                  *)
(***************************************************************************)
\* text[:m] + suffix is at most `width` wide
FitsAt(c, m) == TextWidth(SubSeq(c.text, 1, m)) + TextWidth(c.suffix) <= c.width

\* C27: for a text whose width does not decrease with the length of the
\* prefix, _get_clip_text_to_width_idx(text, width, suffix) returns None when
\* text + suffix fits in width, and otherwise the largest m in 0..len(text)
\* such that text[:m] + suffix is at most `width` wide.
C27_ClipIsLongestFit ==
    \A n \in 1..Len(calls) :
        LET c == calls[n]
        IN IF FitsAt(c, Len(c.text)) THEN c.idx = None
           ELSE /\ c.idx \in 0..Len(c.text)
                /\ FitsAt(c, c.idx)
                /\ \A m \in c.idx + 1..Len(c.text) : ~FitsAt(c, m)

\* the same, for the calls in which the suffix alone fits in the width
C27_ClipIsLongestFitWhenSuffixFits ==
    \A n \in 1..Len(calls) :
        LET c == calls[n]
        IN TextWidth(c.suffix) <= c.width =>
              IF FitsAt(c, Len(c.text)) THEN c.idx = None
              ELSE /\ c.idx \in 0..Len(c.text)
                   /\ FitsAt(c, c.idx)
                   /\ \A m \in c.idx + 1..Len(c.text) : ~FitsAt(c, m)


(***************************************************************************)
(* Claims about the end of TextBox._get_lines (checked under TextSpec).    *)
(***************************************************************************)
\* C28: _get_lines terminates for every text, every explicit width and every
\* line_count >= 1: the wrapping loop stops at line_count lines or at the end
\* of the text, and at most line_count lines are returned.
C28_GetLinesTerminates ==
    (LinesAsked /\ W[1].w # None /\ W[1].line_count >= 1)
        => /\ result.kind = "lines"
           /\ Len(result.size) <= W[1].line_count

\* the same, for the texts without line breaks
C28_GetLinesTerminatesOnOneLine ==
    (/\ LinesAsked /\ W[1].w # None /\ W[1].line_count >= 1
     /\ \A k \in 1..Len(W[1].text) : W[1].text[k] # "\n")
        => /\ result.kind = "lines"
           /\ Len(result.size) <= W[1].line_count


(***************************************************************************)
(* Claims about the regions of a rendered layout (checked under NestSpec). *)
(***************************************************************************)
\* the tree is made of Frames, of fixed-mode HSplit / VSplit without ratios
\* and of fixed-mode Grids over leaves, with non-negative margins and
\* paddings and every offset (0, 0) from the left top anchor
PlainLayout ==
    \A i \in 1..Len(W) :
        /\ W[i].kind \in SplitKinds => W[i].item_size_mode = "fixed" /\ W[i].ratios = <<>>
        /\ W[i].kind = "Grid" => W[i].item_size_mode = "fixed"
        /\ W[i].hmargin >= 0 /\ W[i].vmargin >= 0
        /\ W[i].hpadding >= 0 /\ W[i].vpadding >= 0
        /\ W[i].offset = <<0, 0>>
        /\ W[i].offset_xanchor = "l" /\ W[i].offset_yanchor = "t"

\* the region of event a lies inside the region of event b
Inside(a, b) ==
    \A axis \in 1..2 :
        /\ a.offset[axis] >= b.offset[axis]
        /\ a.offset[axis] + a.size[axis] <= b.offset[axis] + b.size[axis]

\* C29: in a rendered tree of Frames, fixed-mode HSplit / VSplit without
\* ratios and fixed-mode Grids over leaves, with non-negative margins and
\* paddings and all offsets (0, 0), the region each widget is drawn into
\* lies inside the region its parent was drawn into, hence inside the canvas.
C29_ChildRegionInsideParent ==
    (result.kind = "image" /\ PlainLayout) =>
        \A k, e \in 1..Len(log) :
            (/\ log[k].ev = "draw" /\ log[e].ev = "draw"
             /\ W[log[k].id].parent = log[e].id)
                => /\ Inside(log[k], log[e])
                   /\ Inside(log[k], [offset |-> <<0, 0>>, size |-> result.alloc])


\* C30: a widget whose margins, paddings, separators and explicit sizes are
\* non-negative reports a content size that is non-negative on both axes,
\* containers without items included.
C30_ContentSizeNonNegative ==
    result.kind = "image" =>
        \A i \in 1..Len(W) :
            (/\ W[i].hmargin >= 0 /\ W[i].vmargin >= 0
             /\ W[i].hpadding >= 0 /\ W[i].vpadding >= 0
             /\ W[i].sep >= 0 /\ W[i].hsep >= 0 /\ W[i].vsep >= 0
             /\ W[i].w # None => W[i].w >= 0
             /\ W[i].h # None => W[i].h >= 0
             /\ get_content_size(W, i).err = "")
                => /\ get_content_size(W, i).val[1] >= 0
                   /\ get_content_size(W, i).val[2] >= 0

\* the same, for the trees that hold no Grid without items
C30_ContentSizeNonNegativeWithoutEmptyGrid ==
    (/\ result.kind = "image"
     /\ \A g \in 1..Len(W) : W[g].kind = "Grid" => W[g].items # <<>>) =>
        \A i \in 1..Len(W) :
            get_content_size(W, i).err = ""
                => /\ get_content_size(W, i).val[1] >= 0
                   /\ get_content_size(W, i).val[2] >= 0

====
